---------------------------- MODULE Spec2Model ----------------------------
(***************************************************************************)
(* Ant-colony optimizer for the capacitated vehicle routing problem with   *)
(* time windows: ACOptimizer (src/src/optimization/optimizer.py), Ant      *)
(* (src/src/optimization/ant.py) and the travel-cost provider              *)
(* OSRMDistanceProvider (src/src/utils.py); the path-length cache         *)
(* DistanceCache (src/src/utils.py) with its file, and the distance-only   *)
(* OSRMDistanceProvider of src/src/optimization/distance_provider.py.      *)
(*                                                                         *)
(* Spec runs the optimizer on the routing service; SpecDouble and          *)
(* SpecDoubleWait run it around a provider double; SpecProviders calls     *)
(* the providers and the cache directly; SpecAnt calls the methods of one  *)
(* Ant; SpecMain starts at main.main or run_experiments, before the graph  *)
(* is loaded and the problem is built.                                     *)
(*                                                                         *)
(* Numbers.  Distances, times and costs are floats in the code; the model  *)
(* uses integers, with Inf standing for float('inf') (largest value,       *)
(* absorbing under addition).  Pheromone values are fixed-point integers   *)
(* in units of 1/Scale.                                                    *)
(***************************************************************************)
EXTENDS Integers, Sequences, FiniteSets, TLC

\* ------------------------------------------------------------------ bounds
MaxIterations == 2

\* the nodes the lists of an Ant under call hold at most, depot included
MaxTourNodes == 6

\* --------------------------------------------------------------- constants
Inf == 2000000000
TIME_PENALTY == 1000000000
WAIT_PENALTY_MULTIPLIER == 100
Scale == 100000
EVAPORATION_RATE_PERCENT == 50
EAS_ELITISM_FACTOR == 1
MMAS_RHO_PERCENT == 20
DAY_END == 1440

\* ----------------------------------------------------------- float helpers
FAdd(a, b) == IF a = Inf \/ b = Inf THEN Inf ELSE a + b

Max2(a, b) == IF a >= b THEN a ELSE b

Min2(a, b) == IF a <= b THEN a ELSE b

\* tuple(sorted((u, v)))
Edge(u, v) == IF u <= v THEN <<u, v>> ELSE <<v, u>>

RECURSIVE SeqSum(_)
SeqSum(s) == IF s = <<>> THEN 0 ELSE FAdd(Head(s), SeqSum(Tail(s)))

RECURSIVE Flatten(_)
Flatten(ss) == IF ss = <<>> THEN <<>> ELSE Head(ss) \o Flatten(Tail(ss))

Range(s) == {s[k] : k \in 1..Len(s)}

\* ------------------------------------------------------- problem instances
Stop(d, lo, hi, st) == [demand |-> d, time_window |-> <<lo, hi>>, service_time |-> st]

Depot == Stop(0, 0, DAY_END, 0)

\* tests/helpers.py graph with the demands of the capacity-split example
InfoSplit == (1 :> Depot) @@ (2 :> Stop(8, 0, DAY_END, 0))
             @@ (3 :> Stop(10, 0, DAY_END, 0)) @@ (4 :> Stop(6, 0, DAY_END, 0))

\* tests/test_optimizer.py: two stops, one vehicle
InfoPair == (1 :> Depot) @@ (2 :> Stop(10, 0, 100, 5)) @@ (4 :> Stop(10, 0, 100, 5))

\* tests/test_ant.py windows: an early arrival at 3 waits, 4 closes early
InfoWindows == (1 :> Depot) @@ (2 :> Stop(8, 0, 100, 5))
               @@ (3 :> Stop(10, 10, 50, 8)) @@ (4 :> Stop(6, 0, 10, 3))

\* tests/test_ant.py windows, two stops: an early arrival at 3 waits
InfoWait == (1 :> Depot) @@ (2 :> Stop(10, 0, 100, 5)) @@ (3 :> Stop(10, 10, 50, 8))

\* a problem with the depot only
InfoDepotOnly == (1 :> Depot)

NodesInfos == {InfoSplit, InfoPair, InfoWindows, InfoDepotOnly}

Fleets == {<<>>, <<15>>, <<25>>, <<15, 10>>}

FixedCosts == {0, 50}

Strategies == {"eas", "mmas"}

AllNodes == 1..4

AllEdges == {e \in AllNodes \X AllNodes : e[1] < e[2]}

\* backend answers: shortest paths of the tests/helpers.py graph (metres),
\* with durations in minutes
RoutesGrid == (<<1, 2>> :> <<10, 2>>) @@ (<<1, 3>> :> <<10, 2>>) @@ (<<1, 4>> :> <<14, 3>>)
              @@ (<<2, 3>> :> <<20, 4>>) @@ (<<2, 4>> :> <<10, 2>>) @@ (<<3, 4>> :> <<10, 2>>)

\* all nodes at the same coordinates: every route has length and duration 0
RoutesColocated == [e \in AllEdges |-> <<0, 0>>]

RouteTables == {RoutesGrid, RoutesColocated}

\* answers of a provider double (unittest.mock), one per call
DoubleAnswers == {<<0, 0>>, <<10, 2>>, <<0, 200>>, <<10, 200>>}

Responses == {"ok", "noroute", "connfail"}

\* ------------------------------------------------------------------- state
VARIABLES
    nodes_info,             \* ACOptimizer.nodes_info
    start_node,             \* ACOptimizer.start_node
    vehicle_fixed_cost,     \* ACOptimizer.vehicle_fixed_cost
    strategy,               \* ACOptimizer.strategy
    provider,               \* "osrm": OSRMDistanceProvider, "double": a test double
    routes,                 \* what the routing service answers when it answers
    cache,                  \* OSRMDistanceProvider._cache
    pheromones,             \* ACOptimizer.pheromones
    pheromone_min,          \* ACOptimizer.pheromone_min
    pheromone_max,          \* ACOptimizer.pheromone_max
    mmas_initialized,       \* ACOptimizer.mmas_initialized
    ants,                   \* ACOptimizer.ants
    global_best_solution,   \* ACOptimizer.global_best_solution
    global_best_cost,       \* ACOptimizer.global_best_cost
    iterations,             \* run: argument
    i,                      \* run: loop index
    cost_history,           \* run: local
    colony_solution_tours,  \* run: local
    colony_total_distance,  \* run: local
    colony_total_wait_time, \* run: local
    colony_time_window_violated, \* run: local
    iteration_unvisited_nodes,   \* run: local (keys of the dict)
    ant_idx,                \* run: position of `for ant in self.ants`
    next_node,              \* run: local
    total_cost,             \* run: local
    limits_calls,           \* number of calls of _update_mmas_pheromone_limits
    service_failed,         \* has a request to the routing service gone unanswered
    pc,                     \* run: control point
    component,              \* the object under call: "optimizer", "DistanceCache", "utils", "distance_provider",
                            \* "Ant", or the caller of run_optimization_instance: "main", "run_experiments"
    graph,                  \* DistanceCache.graph
    cache_file,             \* the content of the file at DistanceCache.cache_filepath
    memory_cache,           \* DistanceCache.memory_cache
    dc_state,               \* DistanceCache: "none", "ready", or "raised" out of __init__
    sp_calls,               \* calls of nx.shortest_path_length per unordered pair, by this DistanceCache
    returned,               \* values get_distance has returned per unordered pair, by this DistanceCache
    saved_cache,            \* has save_to_disk written the file, and the memory cache it wrote
    reloaded,               \* was this DistanceCache constructed after that save_to_disk
    dp_cache,               \* distance_provider.OSRMDistanceProvider._cache
    last,                   \* the last call on a provider: arguments, answer, what it touched
    download,               \* load_graph: what the road-network download did
    G_directed,             \* main: what load_graph returned
    ant_call,               \* the last call on an Ant from outside run: method, arguments, answers
    problem_config,         \* main: config['problem'], with what the graph and the files hold
    results,                \* main, run_experiments: what run_optimization_instance returned
    selected_travel_time    \* run: the travel time _select_next_node computed for next_node (0: no move pending)

optimizer_vars == <<nodes_info, start_node, vehicle_fixed_cost, strategy, download, G_directed,
                    problem_config, results>>

distance_cache_vars == <<graph, cache_file, memory_cache, dc_state, sp_calls, returned,
                         saved_cache, reloaded>>

call_vars == <<component, distance_cache_vars, dp_cache, last, ant_call>>

harness_vars == <<call_vars, selected_travel_time>>

provider_vars == <<provider, routes, cache, service_failed>>

pheromone_vars == <<pheromones, pheromone_min, pheromone_max, mmas_initialized, limits_calls>>

best_vars == <<global_best_solution, global_best_cost>>

colony_vars == <<colony_solution_tours, colony_total_distance, colony_total_wait_time,
                 colony_time_window_violated>>

vars == <<nodes_info, start_node, vehicle_fixed_cost, strategy, provider, routes, cache,
          pheromones, pheromone_min, pheromone_max, mmas_initialized, ants,
          global_best_solution, global_best_cost, iterations, i, cost_history,
          colony_solution_tours, colony_total_distance, colony_total_wait_time,
          colony_time_window_violated, iteration_unvisited_nodes, ant_idx, next_node,
          total_cost, limits_calls, service_failed, pc, component, graph, cache_file,
          memory_cache, dc_state, sp_calls, returned, saved_cache, reloaded, dp_cache, last,
          download, G_directed, ant_call, selected_travel_time, problem_config, results>>

None == 0

\* -------------------------------------------------- travel-cost provider
\* get_travel_info that asks the service without looking into the cache
GetTravelInfoRefetching(c, rt, u, v, resp) ==
    IF u = v THEN [result |-> <<0, 0>>, cache |-> c]
    ELSE IF resp = "ok"
         THEN [result |-> rt[Edge(u, v)], cache |-> (Edge(u, v) :> rt[Edge(u, v)]) @@ c]
         ELSE [result |-> <<Inf, Inf>>, cache |-> c]

\* OSRMDistanceProvider.get_travel_info: the pair returned and the cache after
\* the call, when the routing service reacts with resp to a request
GetTravelInfo(c, rt, u, v, resp) ==
    IF u = v THEN [result |-> <<0, 0>>, cache |-> c]
    ELSE IF Edge(u, v) \in DOMAIN c THEN [result |-> c[Edge(u, v)], cache |-> c]
    ELSE IF resp = "ok"
         THEN [result |-> rt[Edge(u, v)], cache |-> (Edge(u, v) :> rt[Edge(u, v)]) @@ c]
         ELSE [result |-> <<Inf, Inf>>, cache |-> c]

\* does the call reach the routing service and come back without a route
Unanswered(c, u, v, resp) ==
    provider = "osrm" /\ u # v /\ Edge(u, v) \notin DOMAIN c /\ resp # "ok"

\* what one call of distance_provider.get_travel_info may be answered with
Answers == IF provider = "osrm" THEN Responses ELSE DoubleAnswers

\* distance_provider.get_travel_info as the ant sees it
TravelInfo(c, u, v, resp) ==
    IF provider = "osrm" THEN GetTravelInfo(c, routes, u, v, resp)
    ELSE [result |-> resp, cache |-> c]

\* the nodes that self.node_coords holds, and a node it does not hold
NodeCoords == AllNodes

ProviderNodes == {1, 2, 9}

\* does the call go as far as requests.get(url, timeout=10)
Requests(c, coords, u, v) == u # v /\ Edge(u, v) \notin DOMAIN c /\ {u, v} \subseteq coords

\* utils.OSRMDistanceProvider.get_travel_info for nodes with or without coordinates
GetTravelInfoAt(c, rt, coords, u, v, resp) ==
    IF u # v /\ Edge(u, v) \notin DOMAIN c /\ ~({u, v} \subseteq coords)
    THEN [result |-> <<Inf, Inf>>, cache |-> c]
    ELSE GetTravelInfo(c, rt, u, v, resp)

\* distance_provider.OSRMDistanceProvider.get_distance
DpGetDistance(c, rt, coords, u, v, resp) ==
    IF u = v THEN [result |-> 0, cache |-> c]
    ELSE IF Edge(u, v) \in DOMAIN c THEN [result |-> c[Edge(u, v)], cache |-> c]
    ELSE IF ~({u, v} \subseteq coords) THEN [result |-> Inf, cache |-> c]
    ELSE IF resp = "ok"
         THEN [result |-> rt[Edge(u, v)][1], cache |-> (Edge(u, v) :> rt[Edge(u, v)][1]) @@ c]
    ELSE IF resp = "noroute"
         THEN [result |-> Inf, cache |-> (Edge(u, v) :> Inf) @@ c]
         ELSE [result |-> Inf, cache |-> c]

\* the record of a call on a provider
Call(op, u, v, resp, result, contacted, looked_up) ==
    [op |-> op, u |-> u, v |-> v, resp |-> resp, result |-> result,
     contacted |-> contacted, looked_up |-> looked_up]

NoCall == Call("none", 0, 0, "", 0, FALSE, FALSE)

\* ------------------------------------------------- DistanceCache (utils.py)
\* the nodes the providers are asked about
QueryNodes == {1, 2, 3}

\* the unordered pairs of distinct nodes among them
QueryPairs == {e \in QueryNodes \X QueryNodes : e[1] < e[2]}

\* directed street graphs: one-way streets in a ring; a node without any street;
\* a graph that does not hold node 3 at all
GraphRing == [nodes |-> {1, 2, 3},
              edges |-> (<<1, 2>> :> 10) @@ (<<2, 3>> :> 10) @@ (<<3, 1>> :> 10)]

GraphIsolated == [nodes |-> {1, 2, 3}, edges |-> (<<1, 2>> :> 10) @@ (<<2, 1>> :> 10)]

GraphWithoutNode == [nodes |-> {1, 2}, edges |-> (<<1, 2>> :> 10) @@ (<<2, 1>> :> 10)]

Graphs == {GraphRing, GraphIsolated, GraphWithoutNode}

SetMin(S) == CHOOSE x \in S : \A y \in S : x <= y

\* the weight of the lightest path from u to v that has at most k edges
RECURSIVE PathLength(_, _, _, _)
PathLength(g, u, v, k) ==
    IF u = v THEN 0
    ELSE IF k = 0 THEN Inf
    ELSE LET outs == {e \in DOMAIN g.edges : e[1] = u}
         IN IF outs = {} THEN Inf
            ELSE SetMin({FAdd(g.edges[e], PathLength(g, e[2], v, k - 1)) : e \in outs})

\* nx.shortest_path_length(graph, u, v, weight='length'): a length or an exception
ShortestPathLength(g, u, v) ==
    IF u \notin g.nodes \/ v \notin g.nodes THEN [raised |-> "NodeNotFound", value |-> 0]
    ELSE IF PathLength(g, u, v, Cardinality(g.nodes) - 1) = Inf
         THEN [raised |-> "NetworkXNoPath", value |-> 0]
         ELSE [raised |-> "", value |-> PathLength(g, u, v, Cardinality(g.nodes) - 1)]

\* a cache key that keeps the order of the arguments
CacheKeyAsAsked(u, v) == <<u, v>>

\* edge = tuple(sorted((u, v)))
CacheKey(u, v) == Edge(u, v)

\* get_distance that computes a path from a node to itself like any other
GetDistanceNoShortcut(g, mc, u, v) ==
    IF CacheKey(u, v) \in DOMAIN mc
    THEN [result |-> mc[CacheKey(u, v)], memory_cache |-> mc, computed |-> FALSE, looked_up |-> TRUE]
    ELSE LET d == ShortestPathLength(g, u, v)
             distance == IF d.raised # "" THEN Inf ELSE d.value
         IN [result |-> distance, memory_cache |-> (CacheKey(u, v) :> distance) @@ mc,
             computed |-> TRUE, looked_up |-> TRUE]

\* get_distance that keeps no record of a missing path
GetDistanceNoPathUncached(g, mc, u, v) ==
    IF u = v THEN [result |-> 0, memory_cache |-> mc, computed |-> FALSE, looked_up |-> FALSE]
    ELSE IF CacheKey(u, v) \in DOMAIN mc
    THEN [result |-> mc[CacheKey(u, v)], memory_cache |-> mc, computed |-> FALSE, looked_up |-> TRUE]
    ELSE LET d == ShortestPathLength(g, u, v)
         IN IF d.raised # ""
            THEN [result |-> Inf, memory_cache |-> mc, computed |-> TRUE, looked_up |-> TRUE]
            ELSE [result |-> d.value, memory_cache |-> (CacheKey(u, v) :> d.value) @@ mc,
                  computed |-> TRUE, looked_up |-> TRUE]

\* DistanceCache.get_distance: the value returned, the memory cache after the
\* call, whether the path was computed and whether the cache was looked at
GetDistance(g, mc, u, v) ==
    IF u = v THEN [result |-> 0, memory_cache |-> mc, computed |-> FALSE, looked_up |-> FALSE]
    ELSE IF CacheKey(u, v) \in DOMAIN mc
    THEN [result |-> mc[CacheKey(u, v)], memory_cache |-> mc, computed |-> FALSE, looked_up |-> TRUE]
    ELSE LET d == ShortestPathLength(g, u, v)
             distance == IF d.raised # "" THEN Inf ELSE d.value
         IN [result |-> distance, memory_cache |-> (CacheKey(u, v) :> distance) @@ mc,
             computed |-> TRUE, looked_up |-> TRUE]

\* repr of a node id and its reading
Digits == (1 :> "1") @@ (2 :> "2") @@ (3 :> "3")

\* str(key) of a pair, as the sequence of its tokens: "(1, 2)"
KeyStr(key) == <<"(", Digits[key[1]], ",", Digits[key[2]], ")">>

\* eval that reads the pair back to front
EvalKeyReversed(text) ==
    IF /\ Len(text) = 5
       /\ text[1] = "(" /\ text[3] = "," /\ text[5] = ")"
       /\ \E a, b \in DOMAIN Digits : Digits[a] = text[2] /\ Digits[b] = text[4]
    THEN [raised |-> "", value |-> <<CHOOSE b \in DOMAIN Digits : Digits[b] = text[4],
                                     CHOOSE a \in DOMAIN Digits : Digits[a] = text[2]>>]
    ELSE [raised |-> "NameError", value |-> <<>>]

\* eval(key): the pair that the text denotes, or an exception
EvalKey(text) ==
    IF /\ Len(text) = 5
       /\ text[1] = "(" /\ text[3] = "," /\ text[5] = ")"
       /\ \E a, b \in DOMAIN Digits : Digits[a] = text[2] /\ Digits[b] = text[4]
    THEN [raised |-> "", value |-> <<CHOOSE a \in DOMAIN Digits : Digits[a] = text[2],
                                     CHOOSE b \in DOMAIN Digits : Digits[b] = text[4]>>]
    ELSE [raised |-> "NameError", value |-> <<>>]

\* json.dump of a float: a number, or the token Infinity
JsonDump(value) ==
    IF value = Inf THEN [token |-> "Infinity", number |-> 0]
    ELSE [token |-> "number", number |-> value]

\* json.load of such a value
JsonLoad(j) == IF j.token = "Infinity" THEN Inf ELSE j.number

\* what the cache file can hold
File(kind, items) == [kind |-> kind, items |-> items]

\* DistanceCache.save_to_disk: the file written for a memory cache
SaveToDisk(mc) ==
    File("json_object",
         [text \in {KeyStr(key) : key \in DOMAIN mc} |->
             JsonDump(mc[CHOOSE key \in DOMAIN mc : KeyStr(key) = text])])

\* DistanceCache.load_from_disk: the memory cache read, or the exception that escapes
LoadFromDisk(file) ==
    IF file.kind \in {"absent", "empty"} THEN [raised |-> "", memory_cache |-> <<>>]
    ELSE IF file.kind = "unreadable" THEN [raised |-> "PermissionError", memory_cache |-> <<>>]
    ELSE IF file.kind = "invalid_json" THEN [raised |-> "", memory_cache |-> <<>>]
    ELSE IF file.kind = "json_array" THEN [raised |-> "AttributeError", memory_cache |-> <<>>]
    ELSE IF \E text \in DOMAIN file.items : EvalKey(text).raised # ""
         THEN [raised |-> "NameError", memory_cache |-> <<>>]
         ELSE [raised |-> "",
               memory_cache |->
                  [key \in {EvalKey(text).value : text \in DOMAIN file.items} |->
                      JsonLoad(file.items[CHOOSE text \in DOMAIN file.items :
                                              EvalKey(text).value = key])]]

\* the files a DistanceCache may find at its path
InitialFiles ==
    {File("absent", <<>>), File("empty", <<>>), File("unreadable", <<>>),
     File("invalid_json", <<>>), File("json_array", <<>>),
     File("json_object", (<<"abc">> :> JsonDump(10))),
     SaveToDisk((<<1, 2>> :> 10) @@ (<<1, 3>> :> Inf))}

\* --------------------------------------------------------------------- Ant
\* reset that empties the current tour in place instead of binding a new list
ResetInPlace(a) ==
    [a EXCEPT !.tours = <<>>, !.total_distance = 0, !.current_tour = <<start_node>>,
              !.current_load = 0, !.visited_nodes = {start_node}, !.current_time = 0,
              !.total_wait_time = 0, !.time_window_violated = FALSE]

\* reset that leaves the violation flag as it is
ResetKeepingFlag(a) ==
    [a EXCEPT !.tours = <<>>, !.total_distance = 0, !.current_tour = <<start_node>>,
              !.current_load = 0, !.visited_nodes = {start_node}, !.current_time = 0,
              !.total_wait_time = 0, !.shared = FALSE]

\* Ant.reset
Reset(a) ==
    [a EXCEPT !.tours = <<>>, !.total_distance = 0, !.current_tour = <<start_node>>,
              !.current_load = 0, !.visited_nodes = {start_node}, !.current_time = 0,
              !.total_wait_time = 0, !.time_window_violated = FALSE, !.shared = FALSE]

\* Ant.__init__
NewAnt(capacity, depot) ==
    [capacity |-> capacity, tours |-> <<>>, total_distance |-> 0,
     current_tour |-> <<depot>>, current_load |-> 0, visited_nodes |-> {depot},
     current_time |-> 0, total_wait_time |-> 0, time_window_violated |-> FALSE,
     shared |-> FALSE]

CurrentNode(a) == a.current_tour[Len(a.current_tour)]

\* self.tours once the list self.current_tour has become tour: when the last stored
\* tour is that same list object (shared), it changes with it
StoredTours(a, tour) ==
    IF a.shared THEN [a.tours EXCEPT ![Len(a.tours)] = tour] ELSE a.tours

\* Asked without the capacity test
AskedIgnoringCapacity(a, pool, info) == {n \in pool : n \notin a.visited_nodes}

\* _select_next_node, first loop: the stops that pass the visited and capacity tests
\* and for which the provider is therefore asked
Asked(a, pool, info) ==
    {n \in pool : n \notin a.visited_nodes /\ ~(a.current_load + info[n].demand > a.capacity)}

\* candidate_nodes without the test of the time window
CandidateNodesIgnoringWindow(a, pool, info, c, rf) == Asked(a, pool, info)

\* _select_next_node, first loop: candidate_nodes, rf[n] being the reaction to the
\* query for n
CandidateNodes(a, pool, info, c, rf) ==
    {n \in Asked(a, pool, info) :
        ~(FAdd(a.current_time, TravelInfo(c, CurrentNode(a), n, rf[n]).result[2])
             > info[n].time_window[2])}

\* the provider's cache after the first loop
CacheAfterAsked(a, pool, info, c, rf) ==
    LET hit == {n \in Asked(a, pool, info) :
                  Edge(CurrentNode(a), n) \in DOMAIN TravelInfo(c, CurrentNode(a), n, rf[n]).cache}
    IN [e \in DOMAIN c \cup {Edge(CurrentNode(a), n) : n \in hit} |->
          IF e \in DOMAIN c THEN c[e] ELSE routes[e]]

\* _select_next_node, second loop: is the weight pheromone^alpha * heuristic^beta
\* of candidate n positive (alpha, beta > 0)
PositiveWeight(a, n, ph, c, resp) ==
    /\ (IF Edge(CurrentNode(a), n) \in DOMAIN ph THEN ph[Edge(CurrentNode(a), n)] ELSE Scale) > 0
    /\ TravelInfo(c, CurrentNode(a), n, resp).result[1] < Inf
    /\ TravelInfo(c, CurrentNode(a), n, resp).result[2] < Inf

\* _select_next_node: the stops the roulette wheel can return (None when there is
\* no candidate); rf2[n] is the reaction to the second query for n
Selectable(a, cands, ph, c, rf2) ==
    IF cands = {} THEN {None}
    ELSE IF \A n \in cands : ~PositiveWeight(a, n, ph, c, rf2[n]) THEN cands
    ELSE {n \in cands : PositiveWeight(a, n, ph, c, rf2[n])}

\* the depot branch without the fresh load
MoveToDepotKeepingLoad(a, ti) ==
    [a EXCEPT !.tours = Append(StoredTours(a, Append(a.current_tour, start_node)),
                               Append(a.current_tour, start_node)),
              !.total_distance = FAdd(@, ti[1]),
              !.current_time = FAdd(a.current_time, ti[2]),
              !.current_tour = <<start_node>>,
              !.shared = FALSE]

\* Ant.move_to_node, the branch `next_node == self.start_node`
MoveToDepot(a, ti) ==
    [a EXCEPT !.tours = Append(StoredTours(a, Append(a.current_tour, start_node)),
                               Append(a.current_tour, start_node)),
              !.total_distance = FAdd(@, ti[1]),
              !.current_time = FAdd(a.current_time, ti[2]),
              !.current_tour = <<start_node>>,
              !.current_load = 0,
              !.shared = FALSE]

\* the stop branch with the service starting on arrival, whatever the window
MoveToStopUnwaited(a, next, info, ti) ==
    LET arrival_time == FAdd(a.current_time, ti[2])
    IN [a EXCEPT !.time_window_violated = (@ \/ arrival_time > info[next].time_window[2]),
                 !.current_time = FAdd(arrival_time, info[next].service_time),
                 !.current_tour = Append(@, next),
                 !.tours = StoredTours(a, Append(a.current_tour, next)),
                 !.visited_nodes = @ \cup {next},
                 !.current_load = @ + info[next].demand,
                 !.total_distance = FAdd(@, ti[1])]

\* Ant.move_to_node, the branch of a stop
MoveToStop(a, next, info, ti) ==
    LET arrival_time == FAdd(a.current_time, ti[2])
        wait_time == IF arrival_time = Inf THEN 0
                     ELSE Max2(0, info[next].time_window[1] - arrival_time)
    IN [a EXCEPT !.time_window_violated = (@ \/ arrival_time > info[next].time_window[2]),
                 !.total_wait_time = FAdd(@, wait_time),
                 !.current_time = FAdd(FAdd(arrival_time, wait_time), info[next].service_time),
                 !.current_tour = Append(@, next),
                 !.tours = StoredTours(a, Append(a.current_tour, next)),
                 !.visited_nodes = @ \cup {next},
                 !.current_load = @ + info[next].demand,
                 !.total_distance = FAdd(@, ti[1])]

\* Ant.move_to_node, ti being the provider's answer for (last node, next)
MoveToNode(a, next, info, ti) ==
    IF next = start_node THEN MoveToDepot(a, ti) ELSE MoveToStop(a, next, info, ti)

\* finalize_solution that closes and stores the current tour whatever it holds
FinalizeSolutionUnguarded(a, ti) ==
    [a EXCEPT !.current_tour = Append(@, start_node),
              !.tours = Append(StoredTours(a, Append(a.current_tour, start_node)),
                               Append(a.current_tour, start_node)),
              !.total_distance = FAdd(@, ti[1]),
              !.current_time = FAdd(@, ti[2]),
              !.shared = TRUE]

\* finalize_solution that stores the tour without the return to the depot
FinalizeSolutionOpen(a, ti) ==
    IF a.current_tour # <<>> /\ CurrentNode(a) # start_node
    THEN [a EXCEPT !.tours = Append(@, a.current_tour), !.shared = TRUE]
    ELSE a

\* Ant.finalize_solution, ti being the provider's answer for (last node, depot)
FinalizeSolution(a, ti) ==
    IF a.current_tour # <<>> /\ CurrentNode(a) # start_node
    THEN [a EXCEPT !.current_tour = Append(@, start_node),
                   !.tours = Append(StoredTours(a, Append(a.current_tour, start_node)),
                                    Append(a.current_tour, start_node)),
                   !.total_distance = FAdd(@, ti[1]),
                   !.current_time = FAdd(@, ti[2]),
                   !.shared = TRUE]
    ELSE a

\* -------------------------------------------------------------- pheromones
\* ACOptimizer._init_pheromones
InitPheromones(info) ==
    [e \in {Edge(u, v) : u, v \in DOMAIN info} \ {<<u, u>> : u \in DOMAIN info} |-> Scale]

\* how many consecutive pairs of the tours are the edge e
EdgeCount(tours, e) ==
    Cardinality(UNION {{<<t, k>> : k \in {j \in 1..(Len(tours[t]) - 1) :
                                              Edge(tours[t][j], tours[t][j + 1]) = e}} :
                       t \in 1..Len(tours)})

\* ACOptimizer._apply_pheromone_deposit
ApplyPheromoneDeposit(ph, tours, deposit_amount) ==
    [e \in DOMAIN ph |-> ph[e] + deposit_amount * EdgeCount(tours, e)]

\* 1.0 / cost in pheromone units
Inverse(cost) == Scale \div cost

\* the evaporation loop: every edge times (1 - rate)
Evaporate(ph, rate_percent) == [e \in DOMAIN ph |-> (ph[e] * (100 - rate_percent)) \div 100]

\* the deposit of the iteration's solution (both strategies)
IterationDeposit(ph, tours, cost) ==
    IF cost # Inf /\ cost > 0 THEN ApplyPheromoneDeposit(ph, tours, Inverse(cost)) ELSE ph

\* ACOptimizer._update_pheromones_eas, when it does not raise
UpdatePheromonesEas(ph, tours, cost, best_tours, best_cost) ==
    LET deposited == IterationDeposit(Evaporate(ph, EVAPORATION_RATE_PERCENT), tours, cost)
    IN IF best_cost # Inf
       THEN ApplyPheromoneDeposit(deposited, best_tours, EAS_ELITISM_FACTOR * Inverse(best_cost))
       ELSE deposited

\* the state _update_pheromones_eas leaves behind when 1.0 / global_best_cost raises
UpdatePheromonesEasRaised(ph, tours, cost) ==
    IterationDeposit(Evaporate(ph, EVAPORATION_RATE_PERCENT), tours, cost)

\* the clamp of _update_pheromones_mmas
Clamp(v, lo, hi) == Max2(lo, Min2(v, hi))

\* ACOptimizer._update_pheromones_mmas
UpdatePheromonesMmas(ph, tours, cost, lo, hi) ==
    LET deposited == IterationDeposit(Evaporate(ph, MMAS_RHO_PERCENT), tours, cost)
    IN [e \in DOMAIN ph |-> Clamp(deposited[e], lo, hi)]

\* p_best ** (1 / n), p_best = 0.05, in thousandths
PBestRoot(n) ==
    CASE n = 1 -> 50 [] n = 2 -> 224 [] n = 3 -> 368 [] n = 4 -> 473
      [] n = 5 -> 549 [] n = 6 -> 607 [] OTHER -> 652

\* _update_mmas_pheromone_limits: pheromone_max
PheromoneMax(best_cost) == ((Scale * 100) \div MMAS_RHO_PERCENT) \div best_cost

\* _update_mmas_pheromone_limits: pheromone_min; the denominator
\* (n / 2 - 1) * p_best ** (1 / n) is positive exactly when n > 2
PheromoneMin(pmax, n) ==
    IF (n - 2) * PBestRoot(n) > 0
    THEN (pmax * (1000 - PBestRoot(n)) * 2) \div ((n - 2) * PBestRoot(n))
    ELSE (pmax * 5) \div 100

\* ------------------------------------------------------------------- costs
\* len([tour for tour in tours if len(tour) > 2])
NumTours(tours) == Cardinality({t \in 1..Len(tours) : Len(tours[t]) > 2})

\* the cost formula without the time penalty
CostWithoutPenalty(distance, tours, violated, wait_time) ==
    FAdd(FAdd(distance, NumTours(tours) * vehicle_fixed_cost),
         IF wait_time = Inf THEN Inf ELSE wait_time * WAIT_PENALTY_MULTIPLIER)

\* the cost formula with the wait time taken as it is
CostWaitUnweighted(distance, tours, violated, wait_time) ==
    FAdd(FAdd(FAdd(distance, NumTours(tours) * vehicle_fixed_cost),
              IF violated THEN TIME_PENALTY ELSE 0),
         wait_time)

\* the cost formula of _calculate_cost and of run
Cost(distance, tours, violated, wait_time) ==
    FAdd(FAdd(FAdd(distance, NumTours(tours) * vehicle_fixed_cost),
              IF violated THEN TIME_PENALTY ELSE 0),
         IF wait_time = Inf THEN Inf ELSE wait_time * WAIT_PENALTY_MULTIPLIER)

\* ACOptimizer._calculate_cost
CalculateCost(a) == Cost(a.total_distance, a.tours, a.time_window_violated, a.total_wait_time)

\* -------------------------------------------------------------------- Init
\* the record of a call on an Ant: the method, the node or pool given, what the
\* provider answered, what the method returned, and the ant as it was before
AntCall(op, arg, answers, result, before) ==
    [op |-> op, arg |-> arg, answers |-> answers, result |-> result, before |-> before]

NoAntCall == AntCall("none", 0, <<>>, 0, <<>>)

\* ------------------------------------------- run_optimization_instance
\* config['problem'] as run_optimization_instance reads it: the strategy, the scenario
\* file, the stops asked for and the nodes the graph has, the clusters DBSCAN finds
ProblemConfig(s, f, n, g, c) ==
    [strategy |-> s, scenario_filepath |-> f, num_stops |-> n, graph_nodes |-> g, clusters |-> c]

ScenarioFiles == {"", "missing.json", "malformed.json", "scenario.json"}

ProblemConfigs ==
    {ProblemConfig("from_scenario", f, 2, 3, 2) : f \in ScenarioFiles}
    \cup {ProblemConfig("random", "", n, 3, 2) : n \in {0, 2, 9}}
    \cup {ProblemConfig("dbscan", "", 2, 3, c) : c \in {0, 2}}
    \cup {ProblemConfig("nearest", "", 2, 3, 2)}

\* the error exit run_optimization_instance takes on this configuration, "none"
\* when it reaches ACOptimizer(...)
ProblemError(config) ==
    IF config.strategy = "from_scenario"
    THEN IF config.scenario_filepath = "" THEN "no_scenario_path"
         ELSE IF config.scenario_filepath # "scenario.json" THEN "unreadable_scenario"
         ELSE "none"
    ELSE IF config.strategy = "random"
    THEN IF config.graph_nodes < config.num_stops THEN "too_few_nodes"
         ELSE IF config.num_stops = 0 THEN "no_stops"
         ELSE "none"
    ELSE IF config.strategy = "dbscan"
    THEN IF config.clusters = 0 THEN "no_clusters" ELSE "none"
    ELSE "invalid_strategy"

\* Python values as the callers test them: None, or a tuple of some length
PyNone == [type |-> "NoneType", len |-> 0]

PyTuple(n) == [type |-> "tuple", len |-> n]

\* no call of run_optimization_instance has returned
NoResults == [type |-> "unset", len |-> 0]

\* `return None, None, None, None`
ReturnedOnError == PyTuple(4)

\* `return best_solution, best_cost, cost_history, elapsed_time, nodes_info, start_node`
ReturnedOnSuccess == PyTuple(6)

\* the state after ACOptimizer.__init__, before run is called
OptimizerConstructed(kind, infos, fleets, tables) ==
    /\ download = "ok"
    /\ G_directed = "MultiDiGraph"
    /\ problem_config = ProblemConfig("random", "", 2, 3, 2)
    /\ results = NoResults
    /\ ant_call = NoAntCall
    /\ selected_travel_time = 0
    /\ nodes_info \in infos
    /\ start_node = 1
    /\ vehicle_fixed_cost \in FixedCosts
    /\ strategy \in Strategies
    /\ provider = kind
    /\ routes \in tables
    /\ cache = <<>>
    /\ pheromones = InitPheromones(nodes_info)
    /\ pheromone_min = 0
    /\ pheromone_max = Inf
    /\ mmas_initialized = FALSE
    /\ \E fleet \in fleets : ants = [k \in 1..Len(fleet) |-> NewAnt(fleet[k], 1)]
    /\ global_best_solution = <<>>
    /\ global_best_cost = Inf
    /\ iterations = 0
    /\ i = 0
    /\ cost_history = <<>>
    /\ colony_solution_tours = <<>>
    /\ colony_total_distance = 0
    /\ colony_total_wait_time = 0
    /\ colony_time_window_violated = FALSE
    /\ iteration_unvisited_nodes = {}
    /\ ant_idx = 1
    /\ next_node = None
    /\ total_cost = 0
    /\ limits_calls = 0
    /\ service_failed = FALSE
    /\ pc = "idle"

\* no DistanceCache and no stand-alone provider is under call
ProvidersIdle ==
    /\ component \in {"optimizer", "Ant", "main", "run_experiments"}
    /\ graph = GraphIsolated
    /\ cache_file = File("absent", <<>>)
    /\ memory_cache = <<>>
    /\ dc_state = "none"
    /\ sp_calls = [e \in QueryPairs |-> 0]
    /\ returned = [e \in QueryPairs |-> {}]
    /\ saved_cache = [written |-> FALSE, cache |-> <<>>]
    /\ reloaded = FALSE
    /\ dp_cache = <<>>
    /\ last = NoCall

InitWith(kind, infos, fleets, tables) ==
    OptimizerConstructed(kind, infos, fleets, tables) /\ ProvidersIdle /\ component = "optimizer"

Init == InitWith("osrm", NodesInfos, Fleets, RouteTables)

\* ----------------------------------------------------------- ACOptimizer.run
\* run(iterations) is called
Run ==
    /\ pc = "idle"
    /\ \E n \in 0..MaxIterations : iterations' = n
    /\ i' = 0
    /\ cost_history' = <<>>
    /\ pc' = "loop"
    /\ UNCHANGED <<harness_vars, optimizer_vars, provider_vars, pheromone_vars, ants, best_vars, colony_vars,
                   iteration_unvisited_nodes, ant_idx, next_node, total_cost>>

\* the head of `for i in progress_bar` and the initialisation of the iteration
StartIteration ==
    /\ pc = "loop"
    /\ i < iterations
    /\ colony_solution_tours' = <<>>
    /\ colony_total_distance' = 0
    /\ colony_total_wait_time' = 0
    /\ colony_time_window_violated' = FALSE
    /\ iteration_unvisited_nodes' = DOMAIN nodes_info \ {start_node}
    /\ ant_idx' = 1
    /\ pc' = "ant"
    /\ UNCHANGED <<harness_vars, optimizer_vars, provider_vars, pheromone_vars, ants, best_vars, iterations, i,
                   cost_history, next_node, total_cost>>

\* `for ant in self.ants`: the next ant is taken and reset
NextAnt ==
    /\ pc = "ant"
    /\ ant_idx <= Len(ants)
    /\ iteration_unvisited_nodes # {}
    /\ ants' = [ants EXCEPT ![ant_idx] = Reset(@)]
    /\ pc' = "select"
    /\ UNCHANGED <<harness_vars, optimizer_vars, provider_vars, pheromone_vars, best_vars, colony_vars, iterations,
                   i, cost_history, iteration_unvisited_nodes, ant_idx, next_node, total_cost>>

\* ant._select_next_node(self.pheromones, iteration_unvisited_nodes, alpha, beta)
SelectNextNode ==
    /\ pc = "select"
    /\ LET a == ants[ant_idx]
           asked == Asked(a, iteration_unvisited_nodes, nodes_info)
       IN \E rf \in [asked -> Answers] :
            LET cands == CandidateNodes(a, iteration_unvisited_nodes, nodes_info, cache, rf)
                c2 == CacheAfterAsked(a, iteration_unvisited_nodes, nodes_info, cache, rf)
            IN \E rf2 \in [cands -> IF provider = "osrm" THEN {"ok"} ELSE DoubleAnswers] :
                 /\ next_node' \in Selectable(a, cands, pheromones, c2, rf2)
                 /\ selected_travel_time' =
                        IF next_node' = None THEN 0
                        ELSE TravelInfo(cache, CurrentNode(a), next_node', rf[next_node']).result[2]
                 /\ cache' = c2
                 /\ service_failed' = (service_failed \/
                        \E n \in asked : Unanswered(cache, CurrentNode(a), n, rf[n]))
    /\ pc' = IF next_node' = None THEN "finalize" ELSE "move"
    /\ UNCHANGED <<call_vars, optimizer_vars, provider, routes, pheromone_vars, ants, best_vars, colony_vars,
                   iterations, i, cost_history, iteration_unvisited_nodes, ant_idx, total_cost>>

\* the pool when the visited stop is not deleted
RemoveFromPoolKept(pool, n) == pool

\* del iteration_unvisited_nodes[next_node]
RemoveFromPool(pool, n) == pool \ {n}

\* ant.move_to_node(next_node, self.nodes_info); del iteration_unvisited_nodes[next_node]
MoveAndRemove ==
    /\ pc = "move"
    /\ \E resp \in Answers :
         LET ti == TravelInfo(cache, CurrentNode(ants[ant_idx]), next_node, resp)
         IN /\ ants' = [ants EXCEPT ![ant_idx] = MoveToNode(@, next_node, nodes_info, ti.result)]
            /\ cache' = ti.cache
            /\ service_failed' = (service_failed \/
                   Unanswered(cache, CurrentNode(ants[ant_idx]), next_node, resp))
    /\ iteration_unvisited_nodes' = RemoveFromPool(iteration_unvisited_nodes, next_node)
    /\ selected_travel_time' = 0
    /\ pc' = "select"
    /\ UNCHANGED <<call_vars, optimizer_vars, provider, routes, pheromone_vars, best_vars, colony_vars,
                   iterations, i, cost_history, ant_idx, next_node, total_cost>>

\* ant.finalize_solution() and the aggregation of the ant into the colony
FinalizeAnt ==
    /\ pc = "finalize"
    /\ \E resp \in Answers :
         LET ti == TravelInfo(cache, CurrentNode(ants[ant_idx]), start_node, resp)
             a == FinalizeSolution(ants[ant_idx], ti.result)
         IN /\ ants' = [ants EXCEPT ![ant_idx] = a]
            /\ cache' = IF a = ants[ant_idx] THEN cache ELSE ti.cache
            /\ service_failed' = (service_failed \/
                   (a # ants[ant_idx] /\
                    Unanswered(cache, CurrentNode(ants[ant_idx]), start_node, resp)))
            /\ colony_solution_tours' = colony_solution_tours \o a.tours
            /\ colony_total_distance' = FAdd(colony_total_distance, a.total_distance)
            /\ colony_total_wait_time' = FAdd(colony_total_wait_time, a.total_wait_time)
            /\ colony_time_window_violated' = (colony_time_window_violated \/ a.time_window_violated)
    /\ ant_idx' = ant_idx + 1
    /\ pc' = "ant"
    /\ UNCHANGED <<harness_vars, optimizer_vars, provider, routes, pheromone_vars, best_vars, iterations, i,
                   cost_history, iteration_unvisited_nodes, next_node, total_cost>>

\* a loop over the ants that can be left before an ant has constructed
AntLoopLeftEarly(idx, as, pool) == TRUE

\* `for ant in self.ants` ends: the ants are exhausted or the pool is empty (break)
AntLoopOver(idx, as, pool) == idx > Len(as) \/ pool = {}

\* total_cost computed without looking at the pool
TotalCostIgnoringPool(unvisited, distance, tours, violated, wait_time) ==
    Cost(distance, tours, violated, wait_time)

\* total_cost of the iteration: infinite when stops are left in the pool
TotalCost(unvisited, distance, tours, violated, wait_time) ==
    IF unvisited # {} THEN Inf ELSE Cost(distance, tours, violated, wait_time)

\* the ant loop ends (exhausted or break) and total_cost is computed
ComputeCost ==
    /\ pc = "ant"
    /\ AntLoopOver(ant_idx, ants, iteration_unvisited_nodes)
    /\ total_cost' = TotalCost(iteration_unvisited_nodes, colony_total_distance,
                               colony_solution_tours, colony_time_window_violated,
                               colony_total_wait_time)
    /\ pc' = "best"
    /\ UNCHANGED <<harness_vars, optimizer_vars, provider_vars, pheromone_vars, ants, best_vars, colony_vars,
                   iterations, i, cost_history, iteration_unvisited_nodes, ant_idx, next_node>>

\* the comparison with <= in place of <
ImprovesOrEqual(cost, best_cost) == cost <= best_cost

\* the comparison `total_cost < self.global_best_cost`
Improves(cost, best_cost) == cost < best_cost

\* the global-best update, with _update_mmas_pheromone_limits under MMAS
UpdateBest ==
    /\ pc = "best"
    /\ IF Improves(total_cost, global_best_cost)
       THEN /\ global_best_cost' = total_cost
            /\ global_best_solution' = colony_solution_tours
            /\ IF strategy = "mmas"
               THEN /\ limits_calls' = limits_calls + 1
                    /\ IF total_cost = Inf
                       THEN /\ pc' = "update"
                            /\ UNCHANGED <<pheromones, pheromone_min, pheromone_max, mmas_initialized>>
                       ELSE IF total_cost = 0
                       THEN /\ pc' = "raised"
                            /\ UNCHANGED <<pheromones, pheromone_min, pheromone_max, mmas_initialized>>
                       ELSE /\ pheromone_max' = PheromoneMax(total_cost)
                            /\ pheromone_min' = PheromoneMin(PheromoneMax(total_cost),
                                                             Cardinality(DOMAIN nodes_info))
                            /\ pheromones' = IF mmas_initialized THEN pheromones
                                             ELSE [e \in DOMAIN pheromones |-> PheromoneMax(total_cost)]
                            /\ mmas_initialized' = TRUE
                            /\ pc' = "update"
               ELSE /\ pc' = "update"
                    /\ UNCHANGED pheromone_vars
       ELSE /\ pc' = "update"
            /\ UNCHANGED <<best_vars, pheromone_vars>>
    /\ UNCHANGED <<harness_vars, optimizer_vars, provider_vars, ants, colony_vars, iterations, i, cost_history,
                   iteration_unvisited_nodes, ant_idx, next_node, total_cost>>

\* a history of the iterations' own costs
AppendHistoryOfIteration(history, best_cost, cost) == Append(history, cost)

\* cost_history.append(self.global_best_cost)
AppendHistory(history, best_cost, cost) == Append(history, best_cost)

\* self._update_pheromones(iteration_best_solution); cost_history.append(...)
UpdatePheromones ==
    /\ pc = "update"
    /\ IF strategy = "eas"
       THEN IF global_best_cost = 0
            THEN /\ pheromones' = UpdatePheromonesEasRaised(pheromones, colony_solution_tours,
                                                            total_cost)
                 /\ pc' = "raised"
                 /\ UNCHANGED <<cost_history, i>>
            ELSE /\ pheromones' = UpdatePheromonesEas(pheromones, colony_solution_tours, total_cost,
                                                      global_best_solution, global_best_cost)
                 /\ cost_history' = AppendHistory(cost_history, global_best_cost, total_cost)
                 /\ i' = i + 1
                 /\ pc' = "loop"
       ELSE /\ pheromones' = IF strategy = "mmas" /\ total_cost # Inf
                             THEN UpdatePheromonesMmas(pheromones, colony_solution_tours,
                                                       total_cost, pheromone_min, pheromone_max)
                             ELSE pheromones
            /\ cost_history' = AppendHistory(cost_history, global_best_cost, total_cost)
            /\ i' = i + 1
            /\ pc' = "loop"
    /\ UNCHANGED <<harness_vars, optimizer_vars, provider_vars, pheromone_min, pheromone_max, mmas_initialized,
                   limits_calls, ants, best_vars, colony_vars, iterations, iteration_unvisited_nodes,
                   ant_idx, next_node, total_cost>>

\* the loop is over: save_to_disk and return
Return ==
    /\ pc = "loop"
    /\ i >= iterations
    /\ pc' = "done"
    /\ UNCHANGED <<harness_vars, optimizer_vars, provider_vars, pheromone_vars, ants, best_vars, colony_vars,
                   iterations, i, cost_history, iteration_unvisited_nodes, ant_idx, next_node,
                   total_cost>>

\* ------------------------------------------------ calls on the providers
run_vars == <<optimizer_vars, provider, routes, service_failed, pheromone_vars, ants, best_vars,
              colony_vars, iterations, i, cost_history, iteration_unvisited_nodes, ant_idx,
              next_node, selected_travel_time, total_cost, pc>>

\* DistanceCache(graph, cache_filepath): a fresh object on the file as it is
Construct ==
    /\ component = "DistanceCache"
    /\ LET r == LoadFromDisk(cache_file)
       IN /\ dc_state' = IF r.raised # "" THEN "raised" ELSE "ready"
          /\ memory_cache' = r.memory_cache
          /\ last' = Call("init", 0, 0, r.raised, 0, FALSE, FALSE)
    /\ sp_calls' = [e \in QueryPairs |-> 0]
    /\ returned' = [e \in QueryPairs |-> {}]
    /\ reloaded' = saved_cache.written
    /\ UNCHANGED <<run_vars, cache, component, graph, cache_file, saved_cache, dp_cache, ant_call>>

\* DistanceCache.get_distance(u, v)
QueryDistance ==
    /\ component = "DistanceCache"
    /\ dc_state = "ready"
    /\ \E u, v \in QueryNodes :
         LET r == GetDistance(graph, memory_cache, u, v)
         IN /\ memory_cache' = r.memory_cache
            /\ sp_calls' = IF r.computed /\ u # v
                            THEN [sp_calls EXCEPT ![Edge(u, v)] = @ + 1] ELSE sp_calls
            /\ returned' = IF u # v
                            THEN [returned EXCEPT ![Edge(u, v)] = @ \cup {r.result}] ELSE returned
            /\ last' = Call("get_distance", u, v, "", r.result, r.computed, r.looked_up)
    /\ UNCHANGED <<run_vars, cache, component, graph, cache_file, dc_state, saved_cache, reloaded,
                   dp_cache, ant_call>>

\* DistanceCache.save_to_disk()
Save ==
    /\ component = "DistanceCache"
    /\ dc_state = "ready"
    /\ cache_file' = SaveToDisk(memory_cache)
    /\ saved_cache' = [written |-> TRUE, cache |-> memory_cache]
    /\ reloaded' = FALSE
    /\ last' = Call("save_to_disk", 0, 0, "", 0, FALSE, FALSE)
    /\ UNCHANGED <<run_vars, cache, component, graph, memory_cache, dc_state, sp_calls, returned,
                   dp_cache, ant_call>>

\* utils.OSRMDistanceProvider.get_travel_info(u, v), the service reacting with resp
QueryTravelInfo ==
    /\ component = "utils"
    /\ \E u, v \in ProviderNodes, resp \in Responses :
         LET r == GetTravelInfoAt(cache, routes, NodeCoords, u, v, resp)
         IN /\ cache' = r.cache
            /\ last' = Call("get_travel_info", u, v, resp, r.result,
                            Requests(cache, NodeCoords, u, v), u # v)
    /\ UNCHANGED <<run_vars, component, distance_cache_vars, dp_cache, ant_call>>

\* distance_provider.OSRMDistanceProvider.get_distance(u, v), the service reacting with resp
QueryProviderDistance ==
    /\ component = "distance_provider"
    /\ \E u, v \in ProviderNodes, resp \in Responses :
         LET r == DpGetDistance(dp_cache, routes, NodeCoords, u, v, resp)
         IN /\ dp_cache' = r.cache
            /\ last' = Call("provider_get_distance", u, v, resp, r.result,
                            Requests(dp_cache, NodeCoords, u, v), u # v)
    /\ UNCHANGED <<run_vars, cache, component, distance_cache_vars, ant_call>>

Next ==
    \/ Run
    \/ StartIteration
    \/ NextAnt
    \/ SelectNextNode
    \/ MoveAndRemove
    \/ FinalizeAnt
    \/ ComputeCost
    \/ UpdateBest
    \/ UpdatePheromones
    \/ Return

Spec == Init /\ [][Next]_vars

\* the same optimizer around a provider double whose answers differ from call to call
InitDouble == InitWith("double", {InfoPair}, {<<25>>, <<15, 10>>}, {RoutesGrid})

SpecDouble == InitDouble /\ [][Next]_vars

\* two vehicles with a fixed cost around the provider double, one stop each, one
\* stop opening late
InitDoubleWait ==
    InitWith("double", {InfoWait}, {<<15, 10>>}, {RoutesGrid}) /\ vehicle_fixed_cost = 50

SpecDoubleWait == InitDoubleWait /\ [][Next]_vars

\* a fleet with a spare vehicle: the first one can carry both stops
FleetSpare == <<25, 10>>

InitDoubleSpare ==
    InitWith("double", {InfoPair}, {FleetSpare}, {RoutesGrid}) /\ vehicle_fixed_cost = 0

SpecDoubleSpare == InitDoubleSpare /\ [][Next]_vars

\* a DistanceCache on a graph and a file, or one of the two network providers, under call
InitProviders ==
    /\ OptimizerConstructed("osrm", {InfoPair}, {<<25>>}, {RoutesGrid})
    /\ vehicle_fixed_cost = 0
    /\ strategy = "eas"
    /\ component \in {"DistanceCache", "utils", "distance_provider"}
    /\ graph \in Graphs
    /\ cache_file \in InitialFiles
    /\ memory_cache = <<>>
    /\ dc_state = "none"
    /\ sp_calls = [e \in QueryPairs |-> 0]
    /\ returned = [e \in QueryPairs |-> {}]
    /\ saved_cache = [written |-> FALSE, cache |-> <<>>]
    /\ reloaded = FALSE
    /\ dp_cache = <<>>
    /\ last = NoCall

NextProviders ==
    \/ Construct
    \/ QueryDistance
    \/ Save
    \/ QueryTravelInfo
    \/ QueryProviderDistance

SpecProviders == InitProviders /\ [][NextProviders]_vars

\* ------------------------------------------------------- an Ant under call
\* tests/test_ant.py calls the methods of one Ant directly, in any order, around a
\* provider double; its answer (10.0, 2.0) and a late one
AntAnswers == {<<10, 2>>, <<10, 200>>}

\* the nodes the ant's lists hold
RECURSIVE TourNodes(_)
TourNodes(tours) ==
    IF tours = <<>> THEN 0 ELSE Len(Head(tours)) + TourNodes(Tail(tours))

\* the bounded part of the call sequences: a move is made while the lists may grow
MayGrow(a) == Len(a.current_tour) + TourNodes(a.tours) < MaxTourNodes

\* one Ant of capacity 15 on two stops of demand 10, one of them opening late
InitAnt ==
    /\ OptimizerConstructed("double", {InfoWait}, {<<15>>}, {RoutesGrid})
    /\ vehicle_fixed_cost = 0
    /\ strategy = "eas"
    /\ ProvidersIdle
    /\ component = "Ant"

\* what a call on the Ant leaves alone: everything but the Ant
ant_frame == <<component, distance_cache_vars, dp_cache, last, optimizer_vars, provider_vars,
               pheromone_vars, best_vars, colony_vars, iterations, i, cost_history,
               iteration_unvisited_nodes, ant_idx, next_node, selected_travel_time,
               total_cost, pc>>

\* ant._select_next_node(pheromones, pool, alpha, beta) for any pool of nodes
AntSelect ==
    /\ component = "Ant"
    /\ \E pool \in SUBSET DOMAIN nodes_info :
         LET a == ants[1]
             asked == Asked(a, pool, nodes_info)
         IN \E rf \in [asked -> AntAnswers] :
              LET cands == CandidateNodes(a, pool, nodes_info, cache, rf)
              IN \E rf2 \in [cands -> AntAnswers] :
                   \E result \in Selectable(a, cands, pheromones, cache, rf2) :
                     ant_call' = AntCall("_select_next_node", pool, rf, result, a)
    /\ UNCHANGED <<ants, ant_frame>>

\* ant.move_to_node(n, nodes_info) for any node n
AntMove ==
    /\ component = "Ant"
    /\ MayGrow(ants[1])
    /\ \E n \in DOMAIN nodes_info, ti \in AntAnswers :
         /\ ants' = [ants EXCEPT ![1] = MoveToNode(@, n, nodes_info, ti)]
         /\ ant_call' = AntCall("move_to_node", n, ti, 0, ants[1])
    /\ UNCHANGED ant_frame

\* ant.finalize_solution()
AntFinalize ==
    /\ component = "Ant"
    /\ \E ti \in AntAnswers :
         /\ ants' = [ants EXCEPT ![1] = FinalizeSolution(@, ti)]
         /\ ant_call' = AntCall("finalize_solution", 0, ti, 0, ants[1])
    /\ UNCHANGED ant_frame

\* ant.reset()
AntReset ==
    /\ component = "Ant"
    /\ ants' = [ants EXCEPT ![1] = Reset(@)]
    /\ ant_call' = AntCall("reset", 0, <<>>, 0, ants[1])
    /\ UNCHANGED ant_frame

NextAntCall ==
    \/ AntSelect
    \/ AntMove
    \/ AntFinalize
    \/ AntReset

SpecAnt == InitAnt /\ [][NextAntCall]_vars

\* ----------------------------------------------------- main and load_graph
\* what ox.graph_from_place can do
Downloads == {"ok", "unknown_place", "network_error"}

\* load_graph with no except clause around the download
LoadGraphUnguarded(outcome, undirected) ==
    IF outcome = "ok"
    THEN [raised |-> FALSE, value |-> IF undirected THEN "MultiGraph" ELSE "MultiDiGraph"]
    ELSE [raised |-> TRUE, value |-> "unset"]

\* data_loader.load_graph: the graph, or None when the download raised
LoadGraph(outcome, undirected) ==
    IF outcome = "ok"
    THEN [raised |-> FALSE, value |-> IF undirected THEN "MultiGraph" ELSE "MultiDiGraph"]
    ELSE [raised |-> FALSE, value |-> "None"]

\* the callers of run_optimization_instance: main.main and run_experiments
Callers == {"main", "run_experiments"}

\* the caller has read its configuration; no graph and no optimizer exist yet
InitMain ==
    /\ download = "pending"
    /\ G_directed = "unset"
    /\ problem_config \in ProblemConfigs
    /\ results = NoResults
    /\ ant_call = NoAntCall
    /\ selected_travel_time = 0
    /\ nodes_info = InfoPair
    /\ start_node = 1
    /\ vehicle_fixed_cost \in FixedCosts
    /\ strategy \in Strategies
    /\ provider = "osrm"
    /\ routes = RoutesGrid
    /\ cache = <<>>
    /\ pheromones = <<>>
    /\ pheromone_min = 0
    /\ pheromone_max = Inf
    /\ mmas_initialized = FALSE
    /\ ants = <<>>
    /\ global_best_solution = <<>>
    /\ global_best_cost = Inf
    /\ iterations = 0
    /\ i = 0
    /\ cost_history = <<>>
    /\ colony_solution_tours = <<>>
    /\ colony_total_distance = 0
    /\ colony_total_wait_time = 0
    /\ colony_time_window_violated = FALSE
    /\ iteration_unvisited_nodes = {}
    /\ ant_idx = 1
    /\ next_node = None
    /\ total_cost = 0
    /\ limits_calls = 0
    /\ service_failed = FALSE
    /\ pc = "main"
    /\ ProvidersIdle
    /\ component \in Callers

\* G_directed = load_graph(place_name, undirected=False, verbose=False)
MainLoadGraph ==
    /\ pc = "main"
    /\ \E outcome \in Downloads :
         /\ download' = outcome
         /\ G_directed' = LoadGraph(outcome, FALSE).value
         /\ pc' = IF LoadGraph(outcome, FALSE).raised THEN "raised" ELSE "main_loaded"
    /\ UNCHANGED <<harness_vars, nodes_info, start_node, vehicle_fixed_cost, strategy,
                   problem_config, results,
                   provider_vars, pheromone_vars, ants, best_vars, colony_vars, iterations, i,
                   cost_history, iteration_unvisited_nodes, ant_idx, next_node, total_cost>>

\* `if G_directed is None: ... return`
MainStops ==
    /\ pc = "main_loaded"
    /\ G_directed = "None"
    /\ pc' = "main_returned"
    /\ UNCHANGED <<harness_vars, optimizer_vars, provider_vars, pheromone_vars, ants, best_vars,
                   colony_vars, iterations, i, cost_history, iteration_unvisited_nodes, ant_idx,
                   next_node, total_cost>>

\* run_optimization_instance on the loaded graph takes one of its error exits
MainProblemFails ==
    /\ pc = "main_loaded"
    /\ G_directed # "None"
    /\ ProblemError(problem_config) # "none"
    /\ results' = ReturnedOnError
    /\ pc' = "main_results"
    /\ UNCHANGED <<harness_vars, nodes_info, start_node, vehicle_fixed_cost, strategy, download,
                   G_directed, problem_config,
                   provider_vars, pheromone_vars, ants, best_vars, colony_vars, iterations, i,
                   cost_history, iteration_unvisited_nodes, ant_idx, next_node, total_cost>>

\* run_optimization_instance on the loaded graph, as far as ACOptimizer(...): a fresh
\* optimizer and provider; the experiment runner sets the strategy of each run
MainConstructsOptimizer ==
    /\ pc = "main_loaded"
    /\ G_directed # "None"
    /\ ProblemError(problem_config) = "none"
    /\ strategy' \in IF component = "run_experiments" THEN Strategies ELSE {strategy}
    /\ cache' = <<>>
    /\ pheromones' = InitPheromones(nodes_info)
    /\ pheromone_min' = 0
    /\ pheromone_max' = Inf
    /\ mmas_initialized' = FALSE
    /\ limits_calls' = 0
    /\ \E fleet \in {<<25>>, <<15, 10>>} : ants' = [k \in 1..Len(fleet) |-> NewAnt(fleet[k], 1)]
    /\ global_best_solution' = <<>>
    /\ global_best_cost' = Inf
    /\ iterations' = 0
    /\ i' = 0
    /\ cost_history' = <<>>
    /\ colony_solution_tours' = <<>>
    /\ colony_total_distance' = 0
    /\ colony_total_wait_time' = 0
    /\ colony_time_window_violated' = FALSE
    /\ iteration_unvisited_nodes' = {}
    /\ ant_idx' = 1
    /\ next_node' = None
    /\ total_cost' = 0
    /\ pc' = "idle"
    /\ UNCHANGED <<harness_vars, nodes_info, start_node, vehicle_fixed_cost, download,
                   G_directed, problem_config, results, provider, routes, service_failed>>

\* optimizer.run has returned: run_optimization_instance returns its six values
MainRunReturns ==
    /\ pc = "done"
    /\ results' = ReturnedOnSuccess
    /\ pc' = "main_results"
    /\ UNCHANGED <<harness_vars, nodes_info, start_node, vehicle_fixed_cost, strategy, download,
                   G_directed, problem_config,
                   provider_vars, pheromone_vars, ants, best_vars, colony_vars, iterations, i,
                   cost_history, iteration_unvisited_nodes, ant_idx, next_node, total_cost>>

\* the six-name unpacking of results raises ValueError on any other length
UnpackRaises(r) == r.len # 6

\* what the caller does with results: `if results is None` reports and returns
\* (main) or continues with the next run (run_experiments); otherwise the six
\* values are unpacked, and main plots a non-empty best solution while the
\* runner writes its row and goes on to the next run, if there is one
MainHandlesResults ==
    /\ pc = "main_results"
    /\ IF results = PyNone
       THEN pc' \in IF component = "main" THEN {"main_returned"}
                   ELSE {"main_loaded", "main_returned"}
       ELSE IF UnpackRaises(results)
       THEN pc' = "raised"
       ELSE pc' \in IF component = "main"
                   THEN {IF global_best_solution # <<>> THEN "main_plotted" ELSE "main_returned"}
                   ELSE {"main_loaded", "main_returned"}
    /\ UNCHANGED <<harness_vars, optimizer_vars, provider_vars, pheromone_vars, ants, best_vars,
                   colony_vars, iterations, i, cost_history, iteration_unvisited_nodes, ant_idx,
                   next_node, total_cost>>

NextMain ==
    \/ MainLoadGraph
    \/ MainStops
    \/ MainProblemFails
    \/ MainConstructsOptimizer
    \/ MainRunReturns
    \/ MainHandlesResults
    \/ Next

SpecMain == InitMain /\ [][NextMain]_vars

TypeOK ==
    /\ pc \in {"idle", "loop", "ant", "select", "move", "finalize", "best", "update", "raised",
              "done", "main", "main_loaded", "main_returned", "main_results", "main_plotted",
              "api"}
    /\ global_best_cost \in 0..Inf
    /\ total_cost \in 0..Inf

\* ------------------------------------------------------------- properties
Stops == DOMAIN nodes_info \ {start_node}

Count(seq, x) == Cardinality({k \in 1..Len(seq) : seq[k] = x})

\* every stop exactly once across the tours
CoversEveryStopOnce(tours) == \A n \in Stops : Count(Flatten(tours), n) = 1

RECURSIVE TourDemand(_)
TourDemand(t) == IF t = <<>> THEN 0 ELSE nodes_info[Head(t)].demand + TourDemand(Tail(t))

WellFormed(t) == Len(t) >= 2 /\ t[1] = start_node /\ t[Len(t)] = start_node

\* C1: in an iteration of finite total cost every non-depot stop appears exactly
\* once across the tours of the colony solution, and at every selection step the
\* pool holds no stop that an agent has visited in this iteration.
C1_EveryStopExactlyOnce ==
    /\ (pc \in {"best", "update"} /\ total_cost < Inf) => CoversEveryStopOnce(colony_solution_tours)
    /\ pc = "select" =>
         iteration_unvisited_nodes \cap UNION {ants[k].visited_nodes : k \in 1..ant_idx} = {}

C1_Witness ==
    /\ pc = "best"
    /\ total_cost < Inf
    /\ Len(colony_solution_tours) = 2
    /\ Cardinality(Stops) = 3

\* C2: the demands of the interior stops of every tour of a colony solution sum
\* to at most the capacity of the ant that built the tour.
C2_CapacityRespected ==
    \A t \in 1..Len(colony_solution_tours) :
        \E k \in 1..(ant_idx - 1) :
            /\ colony_solution_tours[t] \in Range(ants[k].tours)
            /\ TourDemand(colony_solution_tours[t]) <= ants[k].capacity

C2_Witness ==
    /\ pc = "best"
    /\ ~service_failed
    /\ iteration_unvisited_nodes # {}
    /\ \E t \in 1..Len(colony_solution_tours) :
          /\ Len(colony_solution_tours[t]) = 4
          /\ TourDemand(colony_solution_tours[t]) = 14
          /\ ants[1].capacity = 15

\* C3: one vehicle of capacity 15 and demands 8, 10 and 6: the run serves the
\* stops in at least two trips and returns a finite best cost with every stop
\* visited exactly once.
C3_SplitIntoTrips ==
    (/\ pc = "done"
     /\ iterations >= 1
     /\ ~service_failed
     /\ nodes_info = InfoSplit
     /\ routes = RoutesGrid
     /\ Len(ants) = 1
     /\ ants[1].capacity = 15)
    => (/\ global_best_cost < Inf
        /\ Len(global_best_solution) >= 2
        /\ CoversEveryStopOnce(global_best_solution))

\* C4: an iteration that leaves stops in the pool has total cost +infinity and
\* never becomes the global best; the best solution is never that of an
\* infeasible iteration, and a best cost of +infinity goes with an empty solution.
C4_InfeasibleNeverBest ==
    /\ []((pc \in {"best", "update"} /\ iteration_unvisited_nodes # {}) => total_cost = Inf)
    /\ [](global_best_solution # <<>> =>
            (global_best_cost < Inf /\ CoversEveryStopOnce(global_best_solution)))
    /\ [](global_best_cost = Inf => global_best_solution = <<>>)
    /\ [][(pc = "best" /\ iteration_unvisited_nodes # {}) => UNCHANGED best_vars]_vars

C4_Witness ==
    /\ pc = "update"
    /\ ~service_failed
    /\ iteration_unvisited_nodes # {}
    /\ total_cost = Inf
    /\ global_best_cost < Inf
    /\ global_best_solution # <<>>

\* C5: the cost history is non-increasing from every element to the next.
C5_HistoryNonIncreasing ==
    \A k \in 1..(Len(cost_history) - 1) : cost_history[k] >= cost_history[k + 1]

C5_Witness ==
    /\ Len(cost_history) = 2
    /\ cost_history[1] < Inf
    /\ cost_history[2] < cost_history[1]

C7_WithinBounds ==
    (strategy = "mmas" /\ mmas_initialized /\ pc \in {"loop", "done"}) =>
        \A e \in DOMAIN pheromones :
            pheromone_min <= pheromones[e] /\ pheromones[e] <= pheromone_max

\* C8: a solution whose violation flag is set costs strictly more than
\* TIME_PENALTY, by _calculate_cost for an agent that has finished its
\* construction and as colony cost in run.
C8_StrictlyAbovePenalty ==
    /\ \A k \in 1..(ant_idx - 1) :
          ants[k].time_window_violated => CalculateCost(ants[k]) > TIME_PENALTY
    /\ (pc \in {"best", "update"} /\ colony_time_window_violated) => total_cost > TIME_PENALTY

\* C8 as amended: such a cost is at least TIME_PENALTY, and strictly greater
\* when the distance, the fixed costs or the waits contribute anything.
C8_AtLeastPenalty ==
    /\ \A k \in 1..(ant_idx - 1) :
          ants[k].time_window_violated =>
             /\ CalculateCost(ants[k]) >= TIME_PENALTY
             /\ (ants[k].total_distance > 0 \/ ants[k].total_wait_time > 0
                 \/ NumTours(ants[k].tours) * vehicle_fixed_cost > 0)
                   => CalculateCost(ants[k]) > TIME_PENALTY
    /\ (pc \in {"best", "update"} /\ colony_time_window_violated) =>
          /\ total_cost >= TIME_PENALTY
          /\ (colony_total_distance > 0 \/ colony_total_wait_time > 0
              \/ NumTours(colony_solution_tours) * vehicle_fixed_cost > 0)
                => total_cost > TIME_PENALTY

C8_Witness ==
    /\ pc = "best"
    /\ colony_time_window_violated
    /\ iteration_unvisited_nodes = {}
    /\ total_cost > TIME_PENALTY
    /\ total_cost < Inf

\* C9: once the global best is a non-violating solution of cost below
\* TIME_PENALTY, no solution that carries a violation replaces it.
C9_ViolatingNeverReplaces ==
    [][(pc = "best" /\ global_best_cost < TIME_PENALTY /\ colony_time_window_violated)
          => UNCHANGED best_vars]_vars

C9_Witness ==
    /\ pc = "update"
    /\ colony_time_window_violated
    /\ iteration_unvisited_nodes = {}
    /\ total_cost < Inf
    /\ global_best_cost < TIME_PENALTY
    /\ colony_total_distance < global_best_cost

\* C10: every tour of every colony solution and of the best solution has the
\* depot as first and as last element.
C10_ToursStartAndEndAtDepot ==
    /\ \A t \in 1..Len(colony_solution_tours) : WellFormed(colony_solution_tours[t])
    /\ \A t \in 1..Len(global_best_solution) : WellFormed(global_best_solution[t])

C10_Witness ==
    /\ pc = "done"
    /\ global_best_cost < Inf
    /\ Len(global_best_solution) = 2

\* the orders in which the stops can be visited
VisitingOrders ==
    {order \in [1..Cardinality(Stops) -> Stops] :
        \A a, b \in 1..Cardinality(Stops) : a # b => order[a] # order[b]}

\* is every stop of the order reached by the end of its window, leaving node at time
RECURSIVE ArrivesInTime(_, _, _)
ArrivesInTime(order, node, time) ==
    IF order = <<>> THEN TRUE
    ELSE LET n == Head(order)
             arrival == FAdd(time, routes[Edge(node, n)][2])
         IN /\ arrival <= nodes_info[n].time_window[2]
            /\ ArrivesInTime(Tail(order), n,
                             Max2(arrival, nodes_info[n].time_window[1]) + nodes_info[n].service_time)

\* one vehicle that can carry the whole demand, windows reachable in every order
OneVehicleSuffices ==
    /\ Len(ants) = 1
    /\ Stops # {}
    /\ \A order \in VisitingOrders :
          /\ TourDemand(order) <= ants[1].capacity
          /\ ArrivesInTime(order, start_node, 0)

C12_ExactlyNIterations ==
    /\ pc # "raised"
    /\ Len(cost_history) = i
    /\ i <= iterations
    /\ pc = "done" => (i = iterations /\ Len(cost_history) = iterations)

\* the tours that visit at least one stop
UsedVehicles(tours) ==
    Cardinality({t \in 1..Len(tours) : \E j \in 1..Len(tours[t]) : tours[t][j] # start_node})

\* C13: in a feasible iteration the total cost of run is the sum of the distances
\* of the agents that took part, plus vehicle_fixed_cost for every tour that
\* visits at least one stop, plus TIME_PENALTY if any of these agents carries
\* the violation flag, plus WAIT_PENALTY_MULTIPLIER times the sum of their wait
\* times; a depot-depot tour of length 2 adds no vehicle.
C13_CostFormula ==
    (pc \in {"best", "update"} /\ iteration_unvisited_nodes = {}) =>
        /\ total_cost =
              FAdd(FAdd(FAdd(SeqSum([k \in 1..(ant_idx - 1) |-> ants[k].total_distance]),
                             vehicle_fixed_cost * UsedVehicles(colony_solution_tours)),
                        IF \E k \in 1..(ant_idx - 1) : ants[k].time_window_violated
                        THEN TIME_PENALTY ELSE 0),
                   WAIT_PENALTY_MULTIPLIER
                      * SeqSum([k \in 1..(ant_idx - 1) |-> ants[k].total_wait_time]))
        /\ Cost(colony_total_distance,
                Append(colony_solution_tours, <<start_node, start_node>>),
                colony_time_window_violated, colony_total_wait_time) = total_cost

C13_Witness ==
    /\ pc = "best"
    /\ iteration_unvisited_nodes = {}
    /\ Len(colony_solution_tours) = 2
    /\ vehicle_fixed_cost = 50
    /\ colony_total_wait_time = 8
    /\ colony_total_distance = 20
    /\ colony_time_window_violated
    /\ total_cost = TIME_PENALTY + 20 + 100 + 800

\* C14: for one DistanceCache and any sequence of queries, get_distance returns
\* one and the same value for a pair in either order, the pair is stored under
\* its sorted key only, and the shortest path of an unordered pair is computed
\* at most once.
C14_SymmetricSingleKeyOnce ==
    /\ \A e \in QueryPairs :
          /\ Cardinality(returned[e]) <= 1
          /\ returned[e] # {} => (e \in DOMAIN memory_cache /\ returned[e] = {memory_cache[e]})
          /\ sp_calls[e] <= 1
    /\ \A key \in DOMAIN memory_cache : key[1] < key[2]

C14_Witness ==
    /\ graph = GraphRing
    /\ last.op = "get_distance"
    /\ last.u = 2
    /\ last.v = 1
    /\ last.result = 10
    /\ ~last.contacted
    /\ sp_calls[<<1, 2>>] = 1
    /\ DOMAIN memory_cache = {<<1, 2>>}

\* C15: a DistanceCache constructed on the file that save_to_disk wrote has a
\* memory cache equal to the saved one, infinite values included, and returns
\* for every saved pair the saved distance without computing a path.
C15_SaveLoadRoundTrip ==
    reloaded =>
        /\ dc_state = "ready"
        /\ last.op = "init" => memory_cache = saved_cache.cache
        /\ \A e \in DOMAIN saved_cache.cache :
              /\ e \in DOMAIN memory_cache
              /\ memory_cache[e] = saved_cache.cache[e]
              /\ sp_calls[e] = 0
              /\ returned[e] \subseteq {saved_cache.cache[e]}

C15_Witness ==
    /\ reloaded
    /\ graph = GraphIsolated
    /\ DOMAIN saved_cache.cache = {<<1, 2>>, <<1, 3>>}
    /\ saved_cache.cache[<<1, 3>>] = Inf
    /\ last.op = "get_distance"
    /\ last.u = 3
    /\ last.v = 1
    /\ last.result = Inf
    /\ ~last.contacted
    /\ returned[<<1, 2>>] = {10}

\* C16: a call of get_travel_info or of the provider's get_distance that contacts
\* the service and meets a connection failure or timeout returns +infinity and
\* leaves the cache as it was (so the pair is asked again); one that meets a
\* definitive no-route answer returns +infinity and caches it, so that no later
\* call on the pair, in either order, contacts the service.
C16_FailureUncachedNoRouteCached ==
    [][(last'.op \in {"get_travel_info", "provider_get_distance"}) =>
          LET before == IF last'.op = "get_travel_info" THEN cache ELSE dp_cache
              after == IF last'.op = "get_travel_info" THEN cache' ELSE dp_cache'
              e == Edge(last'.u, last'.v)
              infinite == IF last'.op = "get_travel_info" THEN <<Inf, Inf>> ELSE Inf
          IN /\ (last'.contacted /\ last'.resp = "connfail") =>
                   (last'.result = infinite /\ after = before /\ e \notin DOMAIN after)
             /\ (last'.contacted /\ last'.resp = "noroute") =>
                   (last'.result = infinite /\ e \in DOMAIN after /\ after[e] = infinite)
             /\ e \in DOMAIN before => (~last'.contacted /\ last'.result = before[e])]_vars

\* a file that exists and is not empty, but cannot be read as a mapping from
\* stringified node pairs to numbers
Corrupt(file) ==
    \/ file.kind \in {"unreadable", "invalid_json", "json_array"}
    \/ /\ file.kind = "json_object"
       /\ \E text \in DOMAIN file.items : text \notin {KeyStr(p) : p \in QueryNodes \X QueryNodes}

\* C17: constructing a DistanceCache on an unreadable or corrupt file raises
\* nothing and starts with an empty memory cache, as it does on an absent or
\* empty file.
C17_CorruptFileStartsEmpty ==
    (last.op = "init" /\ (Corrupt(cache_file) \/ cache_file.kind \in {"absent", "empty"})) =>
        (dc_state = "ready" /\ memory_cache = <<>>)

\* C18: with an empty fleet, or with no stop to serve, run fails before any
\* iteration: no iteration is entered, nothing enters the history, and nothing
\* is returned as a solution.
C18_FailsFast ==
    (Len(ants) = 0 \/ Stops = {}) =>
        /\ pc \in {"idle", "loop", "raised"}
        /\ i = 0
        /\ cost_history = <<>>

\* C19: when the graph has no path between u and v, or lacks one of them,
\* get_distance returns +infinity and stores +infinity under the sorted pair, and
\* every later query of the pair, in either order, returns +infinity without
\* another shortest-path computation.
C19_NoPathCachedAsInfinity ==
    /\ []((/\ last.op = "get_distance"
           /\ last.contacted
           /\ ShortestPathLength(graph, last.u, last.v).raised # "")
          => (/\ last.result = Inf
              /\ Edge(last.u, last.v) \in DOMAIN memory_cache
              /\ memory_cache[Edge(last.u, last.v)] = Inf
              /\ <<last.v, last.u>> \in DOMAIN memory_cache => last.v < last.u))
    /\ [][(/\ last'.op = "get_distance"
           /\ dc_state = "ready"
           /\ Edge(last'.u, last'.v) \in DOMAIN memory_cache
           /\ memory_cache[Edge(last'.u, last'.v)] = Inf)
          => (/\ last'.result = Inf
              /\ ~last'.contacted
              /\ UNCHANGED <<memory_cache, sp_calls>>)]_vars

C19_Witness ==
    /\ graph = GraphWithoutNode
    /\ ~reloaded
    /\ cache_file.kind = "absent"
    /\ last.op = "get_distance"
    /\ last.u = 3
    /\ last.v = 1
    /\ last.result = Inf
    /\ ~last.contacted
    /\ sp_calls[<<1, 3>>] = 1
    /\ memory_cache[<<1, 3>>] = Inf

\* C20: for every node u, with or without a place in the graph or among the
\* coordinates, get_distance(u, u) returns 0 and get_travel_info(u, u) returns
\* (0, 0), without a look at the cache, without a write to it, and without a
\* path computation or a request.
C20_SameNodeCostsNothing ==
    [][(/\ last'.op \in {"get_distance", "get_travel_info", "provider_get_distance"}
        /\ last'.u = last'.v)
       => (/\ last'.result = IF last'.op = "get_travel_info" THEN <<0, 0>> ELSE 0
           /\ ~last'.contacted
           /\ ~last'.looked_up
           /\ UNCHANGED <<cache, dp_cache, memory_cache, sp_calls, returned, cache_file>>)]_vars

C20_Witness ==
    /\ graph = GraphWithoutNode
    /\ last.op = "get_distance"
    /\ last.u = 3
    /\ last.v = 3
    /\ last.result = 0
    /\ DOMAIN memory_cache = {<<1, 3>>}
    /\ sp_calls[<<1, 3>>] = 1

\* C21: whenever the download of the road network fails, load_graph raises
\* nothing and returns None, and main stops: it constructs no optimizer.
C21_FailedDownloadStopsMain ==
    download \in {"unknown_place", "network_error"} =>
        /\ pc \in {"main_loaded", "main_returned"}
        /\ G_directed = "None"
        /\ ants = <<>>
        /\ pheromones = <<>>
        /\ cost_history = <<>>

C21_Witness ==
    /\ download = "network_error"
    /\ pc = "main_returned"
    /\ G_directed = "None"

\* does stop n of the offered pool satisfy the three conditions for the ant a,
\* answers[n] being the provider's answer (distance, travel time) for n
Eligible(a, n, answers) ==
    /\ n \notin a.visited_nodes
    /\ a.current_load + nodes_info[n].demand <= a.capacity
    /\ n \in DOMAIN answers
    /\ a.current_time + answers[n][2] <= nodes_info[n].time_window[2]

\* C22: _select_next_node returns only a stop of the offered pool that the ant has
\* not visited, whose demand fits the remaining capacity and whose arrival time is
\* not after the stop's latest bound; it returns None exactly when no stop of the
\* pool satisfies the three conditions, and it never returns the depot.
C22_SelectsOnlyEligibleStops ==
    ant_call.op = "_select_next_node" =>
        LET a == ant_call.before
            pool == ant_call.arg
            result == ant_call.result
        IN /\ result # None =>
                /\ result \in pool
                /\ Eligible(a, result, ant_call.answers)
                /\ result # start_node
           /\ result = None <=> ~\E n \in pool : Eligible(a, n, ant_call.answers)

\* a stop is returned from a pool that also offers the depot, a visited stop and
\* a stop that would arrive too late
C22_Witness ==
    /\ ant_call.op = "_select_next_node"
    /\ ant_call.arg = {1, 2, 3}
    /\ ant_call.result = 3
    /\ ant_call.before.visited_nodes = {1, 2}
    /\ ant_call.before.current_load = 0

\* None is returned although the pool offers an unvisited stop: it does not fit
C22_WitnessNone ==
    /\ ant_call.op = "_select_next_node"
    /\ ant_call.result = None
    /\ \E n \in ant_call.arg : n \notin ant_call.before.visited_nodes

\* C23: move_to_node to a stop s, with arrival = current_time + travel time, adds
\* max(0, earliest(s) - arrival) to total_wait_time, sets current_time to arrival +
\* wait + service_time(s), appends s to the current tour and to the visited set,
\* adds demand(s) to the load and the travelled distance to total_distance; a late
\* arrival sets time_window_violated and the move is performed all the same; the
\* flag is otherwise left as it was, and only reset clears it.
C23_MoveToStop ==
    /\ (ant_call.op = "move_to_node" /\ ant_call.arg # start_node) =>
          LET a == ant_call.before
              s == ant_call.arg
              arrival == a.current_time + ant_call.answers[2]
              wait == Max2(0, nodes_info[s].time_window[1] - arrival)
          IN /\ ants[1].total_wait_time = a.total_wait_time + wait
             /\ ants[1].current_time = arrival + wait + nodes_info[s].service_time
             /\ ants[1].current_tour = Append(a.current_tour, s)
             /\ ants[1].visited_nodes = a.visited_nodes \cup {s}
             /\ ants[1].current_load = a.current_load + nodes_info[s].demand
             /\ ants[1].total_distance = a.total_distance + ant_call.answers[1]
             /\ ants[1].time_window_violated =
                    (a.time_window_violated \/ arrival > nodes_info[s].time_window[2])
    /\ (ant_call.op \in {"_select_next_node", "move_to_node", "finalize_solution"}
          /\ ant_call.before.time_window_violated) => ants[1].time_window_violated

\* the ant has waited for stop 3 to open and then arrived late at stop 2
C23_Witness ==
    /\ ant_call.op = "move_to_node"
    /\ ant_call.arg = 2
    /\ ant_call.before.current_tour = <<1, 3>>
    /\ ant_call.before.total_wait_time = 8
    /\ ~ant_call.before.time_window_violated
    /\ ants[1].time_window_violated
    /\ ants[1].current_tour = <<1, 3, 2>>

\* C24: move_to_node to the depot appends the depot to the current tour, stores that
\* closed tour in the finished-tours list, advances the clock by the travel time and
\* total_distance by the travelled distance, and starts a new current tour [depot]
\* with load 0, while the visited set, the accumulated wait time and the violation
\* flag stay as they were.
C24_MoveToDepot ==
    (ant_call.op = "move_to_node" /\ ant_call.arg = start_node) =>
        LET a == ant_call.before
        IN /\ Len(ants[1].tours) = Len(a.tours) + 1
           /\ ants[1].tours[Len(ants[1].tours)] = Append(a.current_tour, start_node)
           /\ ants[1].current_time = a.current_time + ant_call.answers[2]
           /\ ants[1].total_distance = a.total_distance + ant_call.answers[1]
           /\ ants[1].current_tour = <<start_node>>
           /\ ants[1].current_load = 0
           /\ ants[1].visited_nodes = a.visited_nodes
           /\ ants[1].total_wait_time = a.total_wait_time
           /\ ants[1].time_window_violated = a.time_window_violated
           /\ ants[1].capacity = a.capacity

\* the ant returns loaded, having waited and arrived late on its tour
C24_Witness ==
    /\ ant_call.op = "move_to_node"
    /\ ant_call.arg = start_node
    /\ ant_call.before.current_load = 20
    /\ ant_call.before.total_wait_time = 8
    /\ ant_call.before.time_window_violated
    /\ ants[1].tours = <<<<1, 3, 2, 1>>>>

\* C25: finalize_solution on a current tour that does not end at the depot appends
\* the depot, stores the tour in the finished-tours list and adds the return
\* distance and time; otherwise it changes nothing.  After it every stored tour
\* starts and ends at the depot, and a second finalize_solution changes nothing.
C25_FinalizeClosesOnce ==
    ant_call.op = "finalize_solution" =>
        LET a == ant_call.before
            closed == Append(a.current_tour, start_node)
        IN /\ IF a.current_tour[Len(a.current_tour)] # start_node
              THEN /\ ants[1].current_tour = closed
                   /\ Len(ants[1].tours) = Len(a.tours) + 1
                   /\ ants[1].tours[Len(ants[1].tours)] = closed
                   /\ ants[1].total_distance = a.total_distance + ant_call.answers[1]
                   /\ ants[1].current_time = a.current_time + ant_call.answers[2]
                   /\ ants[1].current_load = a.current_load
                   /\ ants[1].visited_nodes = a.visited_nodes
                   /\ ants[1].total_wait_time = a.total_wait_time
                   /\ ants[1].time_window_violated = a.time_window_violated
              ELSE \A f \in DOMAIN a : ants[1][f] = a[f]
           /\ \A t \in DOMAIN ants[1].tours :
                /\ ants[1].tours[t][1] = start_node
                /\ ants[1].tours[t][Len(ants[1].tours[t])] = start_node
           /\ \A ti \in AntAnswers :
                \A f \in DOMAIN a : FinalizeSolution(ants[1], ti)[f] = ants[1][f]

\* an open tour is closed after a closed one was stored
C25_Witness ==
    /\ ant_call.op = "finalize_solution"
    /\ ant_call.before.tours = <<<<1, 2, 1>>>>
    /\ ant_call.before.current_tour = <<1, 3>>
    /\ ants[1].tours = <<<<1, 2, 1>>, <<1, 3, 1>>>>

\* finalize_solution is called on an ant it has finalized already
C25_WitnessSecondCall ==
    /\ ant_call.op = "finalize_solution"
    /\ ant_call.before.current_tour = <<1, 2, 1>>
    /\ ants[1].tours = <<<<1, 2, 1>>>>

\* C26: after reset, whatever the state before, the ant has current tour [depot],
\* no finished tour, load 0, clock 0, distance 0, wait time 0, the violation flag
\* false and visited set {depot}; its depot, its capacity and its provider are the
\* ones it had.
C26_ResetRestoresFreshAnt ==
    ant_call.op = "reset" =>
        /\ ants[1].current_tour = <<start_node>>
        /\ ants[1].tours = <<>>
        /\ ants[1].current_load = 0
        /\ ants[1].current_time = 0
        /\ ants[1].total_distance = 0
        /\ ants[1].total_wait_time = 0
        /\ ~ants[1].time_window_violated
        /\ ants[1].visited_nodes = {start_node}
        /\ ants[1].capacity = ant_call.before.capacity
        /\ ants[1] = NewAnt(ant_call.before.capacity, start_node)
        /\ start_node = 1
        /\ provider = "double"

\* reset of an ant that has stored a tour, waited and arrived late
C26_Witness ==
    /\ ant_call.op = "reset"
    /\ ant_call.before.tours # <<>>
    /\ ant_call.before.total_wait_time > 0
    /\ ant_call.before.time_window_violated
    /\ ant_call.before.current_load > 0
    /\ ants[1].tours = <<>>

\* what the ants k..Len(ants) hold together
RECURSIVE HeldTours(_, _)
HeldTours(as, k) ==
    IF k > Len(as) THEN <<>> ELSE as[k].tours \o HeldTours(as, k + 1)

RECURSIVE HeldDistance(_, _)
HeldDistance(as, k) ==
    IF k > Len(as) THEN 0 ELSE FAdd(as[k].total_distance, HeldDistance(as, k + 1))

\* C27: one ant per entry of the fleet, with that entry's capacity, for the whole
\* run; every ant is reset in every iteration, so that none holds tours, load,
\* clock or flags of an earlier iteration: when the ants of an iteration are done,
\* what the ants hold is what the iteration's colony solution was built from, and
\* an ant that built nothing is as fresh as a new one.
C27_EveryAntResetEveryIteration ==
    /\ [k \in DOMAIN ants |-> ants[k].capacity] = FleetSpare
    /\ pc \in {"best", "update"} =>
          /\ HeldTours(ants, 1) = colony_solution_tours
          /\ HeldDistance(ants, 1) = colony_total_distance
          /\ \A k \in DOMAIN ants :
                (\A t \in DOMAIN ants[k].tours : \A l \in DOMAIN colony_solution_tours :
                     ants[k].tours[t] # colony_solution_tours[l])
                   => ants[k] = NewAnt(ants[k].capacity, start_node)

\* the second iteration is over, the first ant has served both stops, and the
\* second ant still holds the tour, the distance and the clock of the first iteration
C27_StaleAnt ==
    /\ pc = "update"
    /\ i = 1
    /\ colony_solution_tours = <<<<1, 2, 4, 1>>>>
    /\ ants[2].tours = <<<<1, 4, 1>>>>
    /\ ants[2].total_distance > 0
    /\ ants[2].current_time > 0

\* C28: the pheromones are not written while the ants of an iteration construct:
\* they change only in the steps that follow the ant loop (global-best update and
\* pheromone update), when every ant of the iteration has finished, and an ant of
\* iteration i + 1 selects only after the update of iteration i is complete.
C28_PheromonesWrittenBetweenConstructions ==
    [][/\ pheromones' # pheromones =>
             /\ pc \in {"best", "update"}
             /\ ant_idx > Len(ants) \/ iteration_unvisited_nodes = {}
       /\ pc \in {"ant", "select", "move", "finalize"} => pheromones' = pheromones
       /\ pc' = "select" => Len(cost_history') = i' /\ pc \in {"ant", "move"}]_vars

\* C28 as stated: the pheromones are written by the update step only
C28_WrittenByUpdateStepOnly ==
    [][pheromones' # pheromones => pc = "update"]_vars

\* an ant of the second iteration selects on pheromones the first iteration wrote
C28_Witness ==
    /\ pc = "select"
    /\ i = 1
    /\ Len(cost_history) = 1
    /\ pheromones # InitPheromones(nodes_info)

\* the value the EAS rule gives edge e: the evaporated value, 1/cost for each time
\* the iteration's solution runs along e, and the elitist deposit for each time the
\* global-best solution does
EasValue(e) ==
    (pheromones[e] * (100 - EVAPORATION_RATE_PERCENT)) \div 100
    + (IF total_cost # Inf /\ total_cost > 0
       THEN (Scale \div total_cost) * EdgeCount(colony_solution_tours, e) ELSE 0)
    + (IF global_best_cost # Inf /\ global_best_cost # 0
       THEN EAS_ELITISM_FACTOR * (Scale \div global_best_cost)
            * EdgeCount(global_best_solution, e)
       ELSE 0)

\* C29: under EAS the update step of every iteration, improving or not, evaporates
\* every edge by (1 - evaporation_rate), adds 1/cost along the iteration's solution
\* when its cost is finite and positive, and adds eas_elitism_factor / global_best_cost
\* along the global-best solution whenever a finite global best exists.
C29_EasUpdateEveryIteration ==
    [][(pc = "update" /\ strategy = "eas") =>
          /\ global_best_cost # Inf => global_best_cost > 0
          /\ \A e \in DOMAIN pheromones : pheromones'[e] = EasValue(e)]_vars

\* the rule is followed in every update step whose global best cost is not 0
C29_EasUpdateUnlessZeroBest ==
    [][(pc = "update" /\ strategy = "eas" /\ global_best_cost # 0) =>
          \A e \in DOMAIN pheromones : pheromones'[e] = EasValue(e)]_vars

\* the elitist deposit is made in an iteration that did not improve the global best
C29_ElitistDepositWithoutImprovement ==
    /\ strategy = "eas"
    /\ pc = "loop"
    /\ i = 2
    /\ cost_history[1] # Inf
    /\ total_cost > global_best_cost
    /\ \E e \in DOMAIN pheromones : EdgeCount(global_best_solution, e) > 0

\* the value of edge e after the MMAS evaporation and the deposit of the iteration's
\* solution alone
MmasDeposited(e) ==
    (pheromones[e] * (100 - MMAS_RHO_PERCENT)) \div 100
    + (IF total_cost # Inf /\ total_cost > 0
       THEN (Scale \div total_cost) * EdgeCount(colony_solution_tours, e) ELSE 0)

\* C30: under MMAS the update step of every iteration evaporates every edge by
\* (1 - mmas_rho), lets the iteration's solution alone deposit 1/cost along its
\* edges, and then clamps every edge into [pheromone_min, pheromone_max].
C30_MmasUpdateEveryIteration ==
    [][(pc = "update" /\ strategy = "mmas") =>
          \A e \in DOMAIN pheromones :
             /\ pheromone_min <= pheromones'[e]
             /\ pheromones'[e] <= pheromone_max
             /\ pheromones'[e] = MmasDeposited(e)
                \/ (MmasDeposited(e) < pheromone_min /\ pheromones'[e] = pheromone_min)
                \/ (MmasDeposited(e) > pheromone_max /\ pheromones'[e] = pheromone_max)]_vars

\* what the update step does under MMAS: nothing in an infeasible iteration, and in
\* a feasible one max(pheromone_min, min(v, pheromone_max)) of the deposited value v
C30_MmasUpdateOfFeasibleIterations ==
    [][(pc = "update" /\ strategy = "mmas") =>
          \A e \in DOMAIN pheromones :
             pheromones'[e] = IF total_cost = Inf THEN pheromones[e]
                              ELSE Max2(pheromone_min, Min2(MmasDeposited(e), pheromone_max))]_vars

\* a feasible iteration has been updated and an edge lies above pheromone_max
C30_AboveMaxAfterUpdate ==
    /\ strategy = "mmas"
    /\ pc = "loop"
    /\ i >= 1
    /\ total_cost # Inf
    /\ \E e \in DOMAIN pheromones : pheromones[e] > pheromone_max

\* an infeasible iteration has been updated after the bounds were established and
\* the edges are what they were after the iteration before
C30_InfeasibleIterationSkipped ==
    /\ strategy = "mmas"
    /\ pc = "loop"
    /\ i = 2
    /\ total_cost = Inf
    /\ mmas_initialized

\* a step of run seeds as stated (positive: unless the solution costs 0): until the first
\* improving solution the edges keep their initial value; the global-best update of
\* that solution sets every edge to the new pheromone_max; a later improvement
\* recomputes pheromone_max and leaves the edges alone
MmasSeeding(positive) ==
    /\ (strategy = "mmas" /\ ~mmas_initialized') => pheromones' = InitPheromones(nodes_info)
    /\ mmas_initialized => mmas_initialized'
    /\ (strategy = "mmas" /\ pc = "best") =>
          IF total_cost < global_best_cost /\ (positive => total_cost # 0)
          THEN /\ total_cost # 0
               /\ mmas_initialized'
               /\ pheromone_max' = ((Scale * 100) \div MMAS_RHO_PERCENT) \div total_cost
               /\ IF mmas_initialized THEN pheromones' = pheromones
                  ELSE \A e \in DOMAIN pheromones : pheromones'[e] = pheromone_max'
          ELSE /\ pheromones' = pheromones
               /\ mmas_initialized' = mmas_initialized

\* C31: under MMAS every edge is set to pheromone_max = 1 / (mmas_rho * global best
\* cost) once per optimizer, in the global-best update of the first improving
\* solution, before that iteration's update step; later improvements recompute the
\* bounds and do not reset the edges, and before the first improving solution the
\* edges keep their initial value.
C31_SeededOnceAtFirstImprovement == [][MmasSeeding(FALSE)]_vars

\* the seeding is as stated in every run whose first improving solution costs more
\* than 0
C31_SeededUnlessZeroCost == [][MmasSeeding(TRUE)]_vars

\* the second iteration improves on the first: the bounds move, the edges stay
C31_LaterImprovement ==
    /\ strategy = "mmas"
    /\ pc = "update"
    /\ i = 1
    /\ cost_history[1] # Inf
    /\ global_best_cost < cost_history[1]
    /\ mmas_initialized

\* C32: once a provider holds a result for the unordered pair {u, v}, every later
\* get_travel_info / get_distance call for the pair, in either order, returns that
\* result from the cache without a request, and no stored entry is ever overwritten;
\* the route a request obtains is what is stored.
C32_CachedPairAnsweredFromCache ==
    [][(last'.op \in {"get_travel_info", "provider_get_distance"}) =>
          LET before == IF last'.op = "get_travel_info" THEN cache ELSE dp_cache
              after == IF last'.op = "get_travel_info" THEN cache' ELSE dp_cache'
              e == Edge(last'.u, last'.v)
          IN /\ \A k \in DOMAIN before : k \in DOMAIN after /\ after[k] = before[k]
             /\ (last'.u # last'.v /\ e \in DOMAIN before) =>
                   (~last'.contacted /\ last'.result = before[e])
             /\ (last'.contacted /\ last'.resp = "ok") =>
                   (e \in DOMAIN after /\ after[e] = last'.result)]_vars

\* the pair asked as (1, 2) is asked again as (2, 1) while the service is down
C32_Witness ==
    /\ last.op = "get_travel_info"
    /\ last.u = 2
    /\ last.v = 1
    /\ last.resp = "connfail"
    /\ ~last.contacted
    /\ last.result = <<10, 2>>
    /\ cache[<<1, 2>>] = <<10, 2>>

\* the travel time the provider gave move_to_node on a step that raises the flag of
\* the ant a: the arrival is late, nothing is waited, and the clock after the move,
\* clock, is the arrival plus the service time
TravelTimeOfLateMove(a, clock) ==
    clock - nodes_info[next_node].service_time - a.current_time

\* C33: in run a move sets time_window_violated only if the provider answers the
\* move with another travel time than it answered the selection of that stop with;
\* with a provider that answers a pair identically on every call no flag is ever
\* set and no iteration's cost holds the time penalty.
C33_ViolationOnlyByChangedAnswer ==
    [][pc = "move" =>
          LET a == ants[ant_idx]
              moved == ants'[ant_idx]
          IN /\ (moved.time_window_violated /\ ~a.time_window_violated) =>
                   TravelTimeOfLateMove(a, moved.current_time) # selected_travel_time
             /\ a.current_time + selected_travel_time <= nodes_info[next_node].time_window[2]
             /\ moved.current_time =
                   Max2(a.current_time + selected_travel_time, nodes_info[next_node].time_window[1])
                   + nodes_info[next_node].service_time
                 => moved.time_window_violated = a.time_window_violated]_vars

\* the selection was answered in time and the move late: the flag is up and the
\* iteration's cost holds the penalty
C33_Witness ==
    /\ pc = "best"
    /\ colony_time_window_violated
    /\ total_cost # Inf
    /\ total_cost >= TIME_PENALTY

\* with utils.OSRMDistanceProvider, which answers a pair from its cache once it has
\* answered it, no ant of run ever has its flag up, whatever the service does
C33_NoViolationWithCachingProvider ==
    /\ \A k \in DOMAIN ants : ~ants[k].time_window_violated
    /\ ~colony_time_window_violated
    /\ total_cost < TIME_PENALTY \/ total_cost = Inf

\* does the tour visit a stop between its ends
HasInteriorStop(tour) == \E p \in 2..(Len(tour) - 1) : tour[p] # start_node

C35_GlobalBestNotMutated ==
    [][/\ IF pc = "best" /\ total_cost < global_best_cost
          THEN global_best_cost' = total_cost /\ global_best_solution' = colony_solution_tours
          ELSE global_best_cost' = global_best_cost /\ global_best_solution' = global_best_solution
       /\ pc' \in {"select", "move"} => ~ants'[ant_idx'].shared
       /\ (pc' = "finalize" /\ ants'[ant_idx'].shared) => CurrentNode(ants'[ant_idx']) = start_node
       /\ \A k \in DOMAIN ants :
             (ants[k].shared /\ ants'[k].shared) => ants'[k].current_tour = ants[k].current_tour]_vars

\* the second iteration costs more than the first: the global best is the first
\* iteration's solution, and an ant whose tour it holds has built another tour
C35_Witness ==
    /\ pc = "update"
    /\ i = 1
    /\ global_best_cost # Inf
    /\ total_cost > global_best_cost
    /\ global_best_solution # colony_solution_tours
    /\ colony_solution_tours # <<>>

\* C36: whenever _update_mmas_pheromone_limits has established the bounds from a
\* finite positive global best cost, 0 < pheromone_min <= pheromone_max, whatever
\* the number of nodes.  (A pheromone_max below 100 units of the fixed point leaves
\* no room for a positive 5 per cent of it, hence the guard of the first part.)
C36_BoundsOrdered ==
    (strategy = "mmas" /\ mmas_initialized) =>
        /\ pheromone_max >= 100 => 0 < pheromone_min
        /\ pheromone_min <= pheromone_max

\* the bounds are established on three nodes and the lower one is the greater
C36_MinAboveMax ==
    /\ strategy = "mmas"
    /\ mmas_initialized
    /\ Cardinality(DOMAIN nodes_info) = 3
    /\ global_best_cost = 34
    /\ pheromone_min > pheromone_max
    /\ pheromone_max > 0

\* C37: run never raises in its pheromone bookkeeping: where the elitist deposit
\* (EAS) or the bound computation (MMAS) divides by global_best_cost, that cost is
\* greater than 0, also when an iteration's total cost is 0.
C37_BookkeepingNeverRaises ==
    /\ pc # "raised"
    /\ (pc = "update" /\ strategy = "eas" /\ global_best_cost # Inf) => global_best_cost > 0
    /\ (pc = "update" /\ strategy = "mmas" /\ mmas_initialized) => global_best_cost > 0

\* run has left its first iteration by ZeroDivisionError on a depot without stops
C37_RaisedOnDepotOnly ==
    /\ pc = "raised"
    /\ nodes_info = InfoDepotOnly
    /\ global_best_cost = 0
    /\ cost_history = <<>>

\* run has left an iteration by ZeroDivisionError on stops at distance 0
C37_RaisedOnColocatedStops ==
    /\ pc = "raised"
    /\ routes = RoutesColocated
    /\ nodes_info # InfoDepotOnly
    /\ global_best_cost = 0

\* C38: when run_optimization_instance cannot build the problem (invalid strategy,
\* missing or unreadable scenario file, too few graph nodes, no clusters, no
\* stops), its caller raises nothing: main returns and the experiment runner goes
\* on to its next run, no optimizer is constructed and nothing is plotted.
C38_CallersHandleFailedBuild ==
    ProblemError(problem_config) # "none" =>
        /\ pc \in {"main", "main_loaded", "main_results", "main_returned"}
        /\ ants = <<>>
        /\ pheromones = <<>>

\* the part of C38 that holds: on a failed build no optimizer is constructed, no
\* run is started and nothing is plotted
C38_NoOptimizerNoPlot ==
    ProblemError(problem_config) # "none" =>
        /\ pc \in {"main", "main_loaded", "main_results", "main_returned", "raised"}
        /\ ants = <<>>
        /\ pheromones = <<>>
        /\ cost_history = <<>>

\* the four values of the error exit are not None, and unpacking them raises, in main
C38_MainRaised ==
    /\ component = "main"
    /\ ProblemError(problem_config) = "invalid_strategy"
    /\ results = ReturnedOnError
    /\ results # PyNone
    /\ pc = "raised"

\* and in the experiment runner
C38_RunnerRaised ==
    /\ component = "run_experiments"
    /\ ProblemError(problem_config) = "no_stops"
    /\ results = ReturnedOnError
    /\ pc = "raised"

\* every error exit is taken by some configuration
C38_EveryErrorExit ==
    {ProblemError(c) : c \in ProblemConfigs} =
        {"none", "no_scenario_path", "unreadable_scenario", "too_few_nodes", "no_stops",
         "no_clusters", "invalid_strategy"}

====
